---------------------------- MODULE Spec2Model ----------------------------
(***************************************************************************)
(* Product Highlighter: the retrieval/matching core.                       *)
(*                                                                         *)
(*  - ProductRAGSystem (src/unnamed/part_000): the chunk and metadata      *)
(*    stores, the indexing pass, retrieveRelevantChunks, generateWithRAG   *)
(*    and the LLM confirmation path (queryLLMWithContext,                  *)
(*    extractProductMatches, createFallbackMatches).  Specification Spec.  *)
(*  - ProductHighlighter (src/evaluator.js): analyzeQuery and              *)
(*    calculateMatchScore, the deterministic scorer.  Specification        *)
(*    SpecScore.                                                           *)
(*                                                                         *)
(* Texts are sequences of one-character strings, so that substring tests,  *)
(* word-boundary tests, splitting and replacing are computed on the        *)
(* characters as the JavaScript does.  Similarities and confidences are    *)
(* integers in hundredths (0.1 is 10); scores are integers in units of     *)
(* 1/(100 * ScoreUnit).                                                    *)
(***************************************************************************)
EXTENDS Integers, Sequences, FiniteSets, TLC

(***************************************************************************)
(* Characters and strings                                                  *)
(***************************************************************************)
UpperChars == <<"A","B","C","D","E","F","G","H","I","J","K","L","M",
                "N","O","P","Q","R","S","T","U","V","W","X","Y","Z">>

LowerChars == <<"a","b","c","d","e","f","g","h","i","j","k","l","m",
                "n","o","p","q","r","s","t","u","v","w","x","y","z">>

DigitChars == {"0","1","2","3","4","5","6","7","8","9"}

CurrencyChars == {"€", "$", "£"}

Range(s) == {s[i] : i \in DOMAIN s}

WordChars == Range(UpperChars) \cup Range(LowerChars) \cup DigitChars \cup {"_"}

\* \w of a JavaScript regular expression
IsWordChar(c) == c \in WordChars

\* \s
IsSpace(c) == c = " "

\* String.prototype.toLowerCase, character by character
UpperSet == Range(UpperChars)

LowerOf == [c \in UpperSet |-> LowerChars[CHOOSE i \in DOMAIN UpperChars : UpperChars[i] = c]]

LowerChar(c) == IF c \in UpperSet THEN LowerOf[c] ELSE c

toLowerCase(s) == [i \in DOMAIN s |-> LowerChar(s[i])]

\* s.substring(0, n)
Prefix(s, n) == SubSeq(s, 1, IF n < Len(s) THEN n ELSE Len(s))

\* whether pat occurs in s at position i
MatchAt(s, pat, i) ==
    /\ i >= 1
    /\ i + Len(pat) - 1 <= Len(s)
    /\ \A k \in 1..Len(pat) : s[i + k - 1] = pat[k]

\* String.prototype.includes
includes(s, pat) == \E i \in 1..(Len(s) + 1) : MatchAt(s, pat, i)

\* \b between position i-1 and i of s (1-based; i = 1 is the start, Len+1 the end)
Boundary(s, i) ==
    LET before == i > 1 /\ IsWordChar(s[i - 1])
        after == i <= Len(s) /\ IsWordChar(s[i])
    IN  before # after

\* new RegExp(`\\b${word}\\b`, 'i') matching at position i of s, given s
\* and the word in lower case
WordAt(s, lower, lowerWord, i) ==
    /\ MatchAt(lower, lowerWord, i)
    /\ Boundary(s, i)
    /\ Boundary(s, i + Len(lowerWord))

\* new RegExp(`\\b${word}\\b`, 'i').test(s)
testWord(s, word) ==
    LET lower == toLowerCase(s)
        lowerWord == toLowerCase(word)
    IN  \E i \in 1..(Len(s) + 1) : WordAt(s, lower, lowerWord, i)

\* String.prototype.trim
RECURSIVE trimLeft(_)
trimLeft(s) == IF s # <<>> /\ IsSpace(Head(s)) THEN trimLeft(Tail(s)) ELSE s

RECURSIVE trimRight(_)
trimRight(s) ==
    IF s # <<>> /\ IsSpace(s[Len(s)]) THEN trimRight(SubSeq(s, 1, Len(s) - 1)) ELSE s

\* String.prototype.trim: from the first to the last character that is no
\* white space (trimRight(trimLeft(s)), without the recursion)
trim(s) ==
    IF \A i \in DOMAIN s : IsSpace(s[i]) THEN <<>>
    ELSE SubSeq(s, CHOOSE i \in DOMAIN s : ~IsSpace(s[i]) /\ \A j \in 1..(i - 1) : IsSpace(s[j]),
                CHOOSE i \in DOMAIN s : ~IsSpace(s[i]) /\ \A j \in (i + 1)..Len(s) : IsSpace(s[j]))

\* s.replace(/\s+/g, ' ')
RECURSIVE collapseWhitespace(_)
collapseWhitespace(s) ==
    IF s = <<>> THEN <<>>
    ELSE IF IsSpace(Head(s))
         THEN <<" ">> \o collapseWhitespace(trimLeft(s))
         ELSE <<Head(s)>> \o collapseWhitespace(Tail(s))

\* s.replace(/[^\w\s-]/g, '')
stripPunctuation(s) == SelectSeq(s, LAMBDA c : IsWordChar(c) \/ IsSpace(c) \/ c = "-")

\* s.split(/\s+/): the maximal runs of non-space characters; a leading or
\* trailing run of spaces gives an empty first or last piece, and the empty
\* string gives one empty piece
IsSeparator(c, onSpace) == IF onSpace THEN IsSpace(c) ELSE ~IsWordChar(c)

\* the positions where a run of characters that are no separators starts
runStarts(s, onSpace) ==
    SelectSeq([i \in 1..Len(s) |-> i],
              LAMBDA i : ~IsSeparator(s[i], onSpace)
                         /\ (i = 1 \/ IsSeparator(s[i - 1], onSpace)))

\* the last position of the run that starts at position i
runEnd(s, i, onSpace) ==
    CHOOSE j \in i..Len(s) :
        /\ \A k \in i..j : ~IsSeparator(s[k], onSpace)
        /\ j = Len(s) \/ IsSeparator(s[j + 1], onSpace)

runsAt(s, starts, onSpace) ==
    [k \in DOMAIN starts |-> SubSeq(s, starts[k], runEnd(s, starts[k], onSpace))]

emptyPieceIf(separated) == IF separated THEN << <<>> >> ELSE <<>>

splitRuns(s, onSpace) ==
    IF s = <<>> THEN << <<>> >>
    ELSE emptyPieceIf(IsSeparator(s[1], onSpace))
         \o runsAt(s, runStarts(s, onSpace), onSpace)
         \o emptyPieceIf(IsSeparator(s[Len(s)], onSpace))

splitWhitespace(s) == splitRuns(s, TRUE)

\* s.split(/\W+/)
splitNonWord(s) == splitRuns(s, FALSE)

\* array.join(' ')
RECURSIVE joinSpace(_)
joinSpace(ws) ==
    IF ws = <<>> THEN <<>>
    ELSE IF Len(ws) = 1 THEN ws[1]
    ELSE ws[1] \o <<" ">> \o joinSpace(Tail(ws))

(***************************************************************************)
(* ProductRAGSystem: inputs                                                *)
(***************************************************************************)
\* The number of products all indexing passes of a run index together
MaxIndexed == 3

\* this.similarityThreshold = 0.1, in hundredths
similarityThreshold == 10

\* this.maxRetrievedChunks
maxRetrievedChunks == 100

\* createFallbackMatches: chunks.slice(0, 3)
fallbackTop == 3

\* Embedding vectors of the sample products' chunks and of the sample
\* queries.  Their norms are whole numbers, so the cosine is exact.
QueryEmbeddings == {<<1, 0, 0, 0>>, <<0, 1, 0, 0>>}

TitleNikeA == <<"N","i","k","e"," "," ","A","i","r","-","M","a","x"," ","9","0"," ",
                "S","n","e","a","k","e","r"," ","L","o","w"," ","W","h","i","t","e","!">>

TitleNikeB == <<"N","I","K","E"," ","A","I","R","-","M","A","X"," ","9","0"," ",
                "S","N","E","A","K","E","R"," ","L","O","W"," ","W","H","E","A","T">>

TitlePuma == <<"P","u","m","a"," ","&"," ","C","o">>

\* The captured products: the ProductId (generateConsistentProductId of the
\* content), the title, and the embedding of each chunk chunkProductInfo
\* emits for it.
Products ==
    { [productId |-> 1, title |-> TitleNikeA,
       embeddings |-> << <<6, 8, 0, 0>>, <<1, 7, 7, 1>> >>],
      [productId |-> 2, title |-> TitleNikeB,
       embeddings |-> << <<8, 6, 0, 0>> >>],
      [productId |-> 3, title |-> TitlePuma,
       embeddings |-> << <<0, 10, 0, 0>>, <<6, 8, 0, 0>> >>] }

ProductIds == {p.productId : p \in Products}

\* The batches handed to processProductsForRAG: one product or two
Batches == {<<p>> : p \in Products} \cup {<<p, r>> : p, r \in Products}

\* The maxChunks arguments of a direct retrieveRelevantChunks call (10 is
\* the parameter's default)
MaxChunksArgs == {0, 2, 10}

\* What the external LLM answers: text that does not parse, or a JSON object
\* whose matches name product ids (one of them unknown to the store)
LLMMatches == {<<>>} \cup {<<[productId |-> i, confidence |-> 90]>> : i \in ProductIds \cup {0}}

LLMResponses == {[parses |-> FALSE, matches |-> <<>>]}
                    \cup {[parses |-> TRUE, matches |-> m] : m \in LLMMatches}

\* queryLLMWithContext's catch: '{"matches": [], "reasoning": "LLM generation failed"}'
LLMFailedResponse == [parses |-> TRUE, matches |-> <<>>]

(***************************************************************************)
(* ProductRAGSystem: state                                                 *)
(***************************************************************************)
VARIABLES
    db,             \* this.db: "null" before openDatabase resolved (or when it failed), "open"
    productChunks,  \* the productChunks object store, in key order
    productMeta,    \* the productMeta object store, in key order
    ipc,            \* processProductsForRAG: "idle", "storeChunks", "storeMetadata"
    ibatch,         \* the products of the pass in progress
    indexed,        \* how many products the passes so far were given
    iresult,        \* how the last pass ended: "none", "resolved", "rejected"
    qpc,            \* the query in progress: where it is
    query,          \* the query's embedding
    maxChunks,      \* retrieveRelevantChunks' maxChunks
    chunks,         \* getAllChunks' result, as retrieveRelevantChunks read it
    metaAtRetrieval,\* history: the productMeta store as it was when that read returned
    relevantChunks, \* retrieveRelevantChunks' result
    pending,        \* what is still to be looked up (product scores, LLM matches or chunks)
    matches,        \* the local array matches: the matches collected so far
    llmFailed,      \* whether the LLM call failed
    inCatch,        \* whether the catch block of the query's function was entered
    result          \* what the query returned to its caller

ragVars == <<db, productChunks, productMeta, ipc, ibatch, indexed, iresult, qpc, query,
             maxChunks, chunks, metaAtRetrieval, relevantChunks, pending, matches, llmFailed,
             inCatch, result>>

storeVars == <<db, productChunks, productMeta>>
indexVars == <<ipc, ibatch, indexed, iresult>>
queryVars == <<qpc, query, maxChunks, chunks, metaAtRetrieval, relevantChunks, pending,
               matches, llmFailed, inCatch, result>>

\* ProductHighlighter (calculateMatchScore)
VARIABLES
    promptGiven,            \* the userPrompt calculateMatchScore is given
    textGiven,              \* the productText it is given
    highPerformingKeywords, \* this.highPerformingKeywords
    analysis,               \* analyzeQuery's result, once calculateMatchScore ran
    finalScore,             \* calculateMatchScore's result
    spc                     \* "off", "ready" (inputs chosen) or "scored"

scoreVars == <<promptGiven, textGiven, highPerformingKeywords, analysis, finalScore, spc>>

\* Re-indexing scenario: a product indexed, queried, indexed again, queried again
VARIABLES
    rpc,            \* "off", "start", "indexedOnce", "queriedOnce", "indexedTwice", "queriedTwice"
    rproduct,       \* the batch handed to processProductsForRAG twice: one product
    matchesOnce,    \* generateWithRAG's matches after the first indexing pass
    matchesTwice    \* generateWithRAG's matches after the second

reindexVars == <<rpc, rproduct, matchesOnce, matchesTwice>>

\* The stores as IndexedDB runs them: transactions, their completion, the clear
VARIABLES
    tpc,            \* processProductsForRAG: "idle" or "storing"
    tcall,          \* which of its store calls is next (an index into storeCalls)
    tbatch,         \* the products of the pass in progress
    tresult,        \* how the last pass ended: "none", "resolved", "rejected"
    passes,         \* how many passes were started
    clears,         \* how many times clearRAGDatabase was called
    txQueue,        \* the read-write transactions created and not yet finished, oldest first
    writeLog,       \* history: the add requests issued, in order
    chunkEpochs,    \* history: for each record of productChunks, the clears done when it was written
    metaEpochs,     \* history: the same for productMeta
    chunksCleared,  \* history: how many clears have emptied productChunks
    metaCleared,    \* history: how many clears have emptied productMeta
    failed          \* history: the last transaction in which an add failed

txVars == <<tpc, tcall, tbatch, tresult, passes, clears, txQueue, writeLog, chunkEpochs,
            metaEpochs, chunksCleared, metaCleared, failed>>

\* The content script (ProductHighlighter) and the capture of the page
\* (VectorProductSearch.captureAllProducts)
VARIABLES
    isEnabled,          \* this.isEnabled
    hasPrompt,          \* whether this.userPrompt is non-empty
    isCapturing,        \* this.isCapturing
    captureCompleted,   \* this.captureCompleted
    isScrolling,        \* this.vectorSearch.isScrolling
    dpc,                \* where each detectProducts call in flight stands
    scrolls,            \* the scroll-triggered detections so far
    highlighted,        \* whether an element of the page carries a highlight
    toolbarHidden,      \* whether this.toolbar has the class "hidden"
    edgeVisible,        \* whether this.edgeTab has the class "visible"
    hideTimers,         \* the 100 ms timers of hideToolbar still to fire
    edgeTimers          \* the 500 ms timers that show the edge tab, still to fire

toolbarVars == <<toolbarHidden, edgeVisible, hideTimers, edgeTimers>>

captureVars == <<isEnabled, hasPrompt, isCapturing, captureCompleted, isScrolling, dpc,
                 scrolls, highlighted, toolbarVars>>

\* processProductsForRAG on the text of its products
VARIABLES
    cpc,                \* where the call stands
    cbatch,             \* products
    cresult             \* what the call hands to the store calls, or its rejection

chunkVars == <<cpc, cbatch, cresult>>

\* GroqProductEnhancer: the queue of evaluateProduct
VARIABLES
    groqEnabled,        \* this.isEnabled
    batchQueue,         \* this.batchQueue: the requests queued, by number
    batchTimer,         \* whether a timer set by evaluateProduct is still to fire
    inFlight,           \* the batches whose callGroqAPI has not settled
    promises,           \* the promise of each evaluateProduct call so far
    cache               \* this.cache, for the keys of evaluateProduct

groqVars == <<groqEnabled, batchQueue, batchTimer, inFlight, promises, cache>>

\* the popup and chrome.storage.sync. Fractions are kept in hundredths
VARIABLES
    storedThreshold,    \* the threshold in chrome.storage.sync
    applied,            \* whether applySettings stored it
    popupOpen,          \* whether the popup is shown
    sliderValue,        \* thresholdSlider.value, a whole percentage
    thresholdLabel      \* the percentage thresholdValue.textContent shows

popupVars == <<storedThreshold, applied, popupOpen, sliderValue, thresholdLabel>>

\* ProductHighlighter.getAdjustedThreshold
VARIABLES
    threshold,          \* this.threshold, in hundredths
    thresholdPrompt,    \* this.userPrompt
    adjustedThreshold   \* what getAdjustedThreshold returned, in hundredths

adjustVars == <<threshold, thresholdPrompt, adjustedThreshold>>

\* the page side of the extension
pageVars == <<captureVars, chunkVars, groqVars, popupVars, adjustVars>>

\* what the actions of one component leave alone
outsideRag == <<scoreVars, reindexVars, txVars, pageVars>>
outsideScore == <<ragVars, reindexVars, txVars, pageVars>>
outsideReindex == <<scoreVars, txVars, pageVars>>
outsideTx == <<scoreVars, reindexVars, pageVars>>
outsideCapture == <<ragVars, scoreVars, reindexVars, txVars, chunkVars, groqVars, popupVars, adjustVars>>
outsideChunk == <<ragVars, scoreVars, reindexVars, txVars, captureVars, groqVars, popupVars, adjustVars>>
outsideGroq == <<ragVars, scoreVars, reindexVars, txVars, captureVars, chunkVars, popupVars, adjustVars>>
outsidePopup == <<ragVars, scoreVars, reindexVars, txVars, captureVars, chunkVars, groqVars, adjustVars>>
outsideAdjust == <<ragVars, scoreVars, reindexVars, txVars, captureVars, chunkVars, groqVars, popupVars>>

NoResult == [op |-> "none", status |-> "none", matches |-> <<>>, reasoning |-> "", retrievedChunks |-> 0]

(***************************************************************************)
(* cosineSimilarity, retrieveRelevantChunks                                *)
(***************************************************************************)
Min(a, b) == IF a < b THEN a ELSE b
Max(a, b) == IF a > b THEN a ELSE b

RECURSIVE SumSeq(_)
SumSeq(s) ==
    IF s = <<>> THEN 0
    ELSE IF Len(s) = 1 THEN s[1]
    ELSE SumSeq(SubSeq(s, 1, Len(s) \div 2)) + SumSeq(SubSeq(s, Len(s) \div 2 + 1, Len(s)))

\* Math.sqrt, on the squares the samples give
Sqrt(n) == CHOOSE r \in 0..n : r * r <= n /\ n < (r + 1) * (r + 1)

\* cosineSimilarity(vec1, vec2), in hundredths
cosineSimilarity(vec1, vec2) ==
    LET n == Min(Len(vec1), Len(vec2))
        dotProduct == SumSeq([i \in 1..n |-> vec1[i] * vec2[i]])
        norm1 == Sqrt(SumSeq([i \in 1..n |-> vec1[i] * vec1[i]]))
        norm2 == Sqrt(SumSeq([i \in 1..n |-> vec2[i] * vec2[i]]))
    IN  IF norm1 = 0 \/ norm2 = 0 THEN 0
        ELSE (100 * dotProduct) \div (norm1 * norm2)

RemoveAt(s, i) == SubSeq(s, 1, i - 1) \o SubSeq(s, i + 1, Len(s))

\* Variant: the chunks left in the order the store gave them
storeOrder(s) == s

\* the place of s[i] after a stable descending sort: behind every chunk of a
\* higher similarity and every earlier chunk of the same similarity
placeBySimilarity(s, i) ==
    1 + Cardinality({j \in DOMAIN s :
                        \/ s[j].similarity > s[i].similarity
                        \/ s[j].similarity = s[i].similarity /\ j < i})

\* similarities.sort((a, b) => b.similarity - a.similarity): stable, descending
sortBySimilarity(s) ==
    [k \in DOMAIN s |-> s[CHOOSE i \in DOMAIN s : placeBySimilarity(s, i) = k]]

\* the filter of retrieveRelevantChunks
passesThreshold(chunk) == chunk.similarity > similarityThreshold

\* retrieveRelevantChunks, from getAllChunks' result on
retrieveFrom(allChunks, queryEmbedding, maxCh) ==
    LET similarities ==
            [i \in DOMAIN allChunks |->
                [productId |-> allChunks[i].productId,
                 embedding |-> allChunks[i].embedding,
                 similarity |-> cosineSimilarity(queryEmbedding, allChunks[i].embedding)]]
        sorted == sortBySimilarity(similarities)
    IN  Prefix(SelectSeq(sorted, passesThreshold), maxCh)

(***************************************************************************)
(* The stores                                                              *)
(***************************************************************************)
\* openDatabase: request.onsuccess sets this.db
OpenDatabase ==
    /\ db = "null"
    /\ db' = "open"
    /\ UNCHANGED <<productChunks, productMeta>>
    /\ UNCHANGED indexVars
    /\ UNCHANGED queryVars
    /\ UNCHANGED outsideRag

\* this.db.transaction(...) throws a TypeError while this.db is null
CanOpenTransaction == db = "open"

\* getProductMetadata: store.index('productId').get(productId), the first
\* record of that productId, or nothing (a sequence of at most one record)
getProductMetadata(store, productId) ==
    LET hits == SelectSeq(store, LAMBDA m : m.productId = productId)
    IN  Prefix(hits, 1)

(***************************************************************************)
(* processProductsForRAG                                                   *)
(***************************************************************************)
\* chunkProductInfo: the chunks of one product, each with its embedding
chunkProductInfo(product) ==
    [i \in DOMAIN product.embeddings |->
        [productId |-> product.productId, embedding |-> product.embeddings[i]]]

RECURSIVE chunksOfBatch(_)
chunksOfBatch(batch) ==
    IF batch = <<>> THEN <<>>
    ELSE chunkProductInfo(Head(batch)) \o chunksOfBatch(Tail(batch))

metadataOfBatch(batch) ==
    [i \in DOMAIN batch |-> [productId |-> batch[i].productId, title |-> batch[i].title]]

\* processProductsForRAG(products), up to its first store call
I_Start(batch) ==
    /\ ipc = "idle"
    /\ indexed + Len(batch) <= MaxIndexed
    /\ ipc' = "storeChunks"
    /\ ibatch' = batch
    /\ indexed' = indexed + Len(batch)
    /\ iresult' = "none"
    /\ UNCHANGED storeVars
    /\ UNCHANGED queryVars
    /\ UNCHANGED outsideRag

\* await this.storeChunks(chunks)
I_StoreChunks ==
    /\ ipc = "storeChunks"
    /\ IF CanOpenTransaction
       THEN /\ productChunks' = productChunks \o chunksOfBatch(ibatch)
            /\ ipc' = "storeMetadata"
            /\ UNCHANGED <<ibatch, iresult>>
       ELSE /\ ipc' = "idle"
            /\ ibatch' = <<>>
            /\ iresult' = "rejected"
            /\ UNCHANGED productChunks
    /\ UNCHANGED <<db, productMeta, indexed>>
    /\ UNCHANGED queryVars
    /\ UNCHANGED outsideRag

\* await this.storeMetadata(metadata); return
I_StoreMetadata ==
    /\ ipc = "storeMetadata"
    /\ IF CanOpenTransaction
       THEN /\ productMeta' = productMeta \o metadataOfBatch(ibatch)
            /\ iresult' = "resolved"
       ELSE /\ iresult' = "rejected"
            /\ UNCHANGED productMeta
    /\ ipc' = "idle"
    /\ ibatch' = <<>>
    /\ UNCHANGED <<db, productChunks, indexed>>
    /\ UNCHANGED queryVars
    /\ UNCHANGED outsideRag

(***************************************************************************)
(* generateWithRAG                                                         *)
(***************************************************************************)
\* Step 2: productScores, in the order Object.entries lists them (the keys
\* are the decimal ProductIds: ascending)
MaxOf(s) ==
    IF s = <<>> THEN 0
    ELSE Max(0, s[CHOOSE i \in DOMAIN s : \A j \in DOMAIN s : s[j] <= s[i]])

RECURSIVE ascending(_)
ascending(S) ==
    IF S = {} THEN <<>>
    ELSE LET m == CHOOSE x \in S : \A y \in S : x <= y
         IN  <<m>> \o ascending(S \ {m})

productScoresOf(rel) ==
    LET ids == ascending({rel[i].productId : i \in DOMAIN rel})
        similaritiesOf(id) ==
            LET mine == SelectSeq(rel, LAMBDA c : c.productId = id)
            IN  [i \in DOMAIN mine |-> mine[i].similarity]
    IN  [k \in DOMAIN ids |->
            [productId |-> ids[k],
             maxSimilarity |-> MaxOf(similaritiesOf(ids[k])),
             totalSimilarity |-> SumSeq(similaritiesOf(ids[k])),
             chunkCount |-> Len(similaritiesOf(ids[k]))]]

\* Variant: a match also for a product whose metadata is not there
hydratedUnchecked(scores, meta) ==
    IF scores.maxSimilarity > similarityThreshold
    THEN <<[productId |-> scores.productId,
            title |-> IF meta # <<>> THEN meta[1].title ELSE <<>>,
            confidence |-> scores.maxSimilarity,
            retrievalScore |-> scores.maxSimilarity]>>
    ELSE <<>>

\* Step 3: the match of one product, if its metadata is there
hydrated(scores, meta) ==
    IF meta # <<>> /\ scores.maxSimilarity > similarityThreshold
    THEN <<[productId |-> meta[1].productId,
            title |-> meta[1].title,
            confidence |-> scores.maxSimilarity,
            retrievalScore |-> scores.maxSimilarity]>>
    ELSE <<>>

\* the dedup key of a match
dedupKey(match) ==
    Prefix(trim(stripPunctuation(collapseWhitespace(toLowerCase(match.title)))), 30)

\* Variant: a later match replaces the held one when its confidence is lower
replacesWhenLower(match, held) == match.confidence < held.confidence

\* whether a later match replaces the one the Map holds for its key
replaces(match, held) == match.confidence > held.confidence

\* matches.forEach(...) into the Map deduplicatedMatches: its entries, in
\* insertion order
RECURSIVE dedupInto(_, _)
dedupInto(map, ms) ==
    IF ms = <<>> THEN map
    ELSE LET match == Head(ms)
             key == dedupKey(match)
             has == \E i \in DOMAIN map : map[i].key = key
             at == CHOOSE i \in DOMAIN map : map[i].key = key
         IN  dedupInto(IF ~has THEN Append(map, [key |-> key, value |-> match])
                       ELSE IF replaces(match, map[at].value)
                            THEN [map EXCEPT ![at].value = match]
                            ELSE map,
                       Tail(ms))

\* Array.from(deduplicatedMatches.values())
deduplicate(ms) ==
    LET map == dedupInto(<<>>, ms) IN [i \in DOMAIN map |-> map[i].value]

\* Variant: a descending sort that is not stable (of equal confidences the
\* last comes first)
RECURSIVE sortUnstable(_)
sortUnstable(s) ==
    IF s = <<>> THEN <<>>
    ELSE LET m == CHOOSE i \in DOMAIN s :
                    /\ \A j \in DOMAIN s : s[j].confidence <= s[i].confidence
                    /\ \A j \in (i + 1)..Len(s) : s[j].confidence < s[i].confidence
         IN  <<s[m]>> \o sortUnstable(SubSeq(s, 1, m - 1) \o SubSeq(s, m + 1, Len(s)))

\* finalMatches.sort((a, b) => b.confidence - a.confidence): stable, descending
RECURSIVE sortByConfidence(_)
sortByConfidence(s) ==
    IF s = <<>> THEN <<>>
    ELSE LET m == CHOOSE i \in DOMAIN s :
                    /\ \A j \in DOMAIN s : s[j].confidence <= s[i].confidence
                    /\ \A j \in 1..(i - 1) : s[j].confidence < s[i].confidence
         IN  <<s[m]>> \o sortByConfidence(RemoveAt(s, m))

\* the deduplication and the sort of generateWithRAG
finalMatchesOf(ms) == sortByConfidence(deduplicate(ms))

\* Variant: the exception passed on to the caller
uncaughtResult ==
    [op |-> "generateWithRAG", status |-> "rejected", matches |-> <<>>,
     reasoning |-> "", retrievedChunks |-> 0]

\* the catch block of generateWithRAG
caughtResult ==
    [op |-> "generateWithRAG", status |-> "resolved", matches |-> <<>>,
     reasoning |-> "RAG generation failed", retrievedChunks |-> 0]

noChunksResult ==
    [op |-> "generateWithRAG", status |-> "resolved", matches |-> <<>>,
     reasoning |-> "No semantically similar products found", retrievedChunks |-> 0]

foundResult(ms, rel) ==
    [op |-> "generateWithRAG", status |-> "resolved", matches |-> finalMatchesOf(ms),
     reasoning |-> "Found products via semantic vector search",
     retrievedChunks |-> Len(rel)]

\* a rejected promise
rejectedResult(operation) ==
    [op |-> operation, status |-> "rejected", matches |-> <<>>,
     reasoning |-> "", retrievedChunks |-> 0]

\* the query returns r to its caller, its local array matches being ms
Finish(r, ms) ==
    /\ qpc' = "done"
    /\ result' = r
    /\ pending' = <<>>
    /\ matches' = ms

\* generateWithRAG(query) is called
G_Start(q) ==
    /\ qpc = "idle"
    /\ qpc' = "gRetrieve"
    /\ query' = q
    /\ maxChunks' = maxRetrievedChunks
    /\ UNCHANGED <<chunks, metaAtRetrieval, relevantChunks, pending, matches, llmFailed,
                   inCatch, result>>
    /\ UNCHANGED storeVars
    /\ UNCHANGED indexVars
    /\ UNCHANGED outsideRag

\* Step 1: await this.retrieveRelevantChunks(query, this.maxRetrievedChunks),
\* then the grouping.  readOk is whether the getAll request succeeds.
G_Retrieve(readOk) ==
    /\ qpc = "gRetrieve"
    /\ IF CanOpenTransaction /\ readOk
       THEN LET rel == retrieveFrom(productChunks, query, maxChunks)
            IN  /\ chunks' = productChunks
                /\ metaAtRetrieval' = productMeta
                /\ relevantChunks' = rel
                /\ IF rel = <<>>
                   THEN Finish(noChunksResult, <<>>)
                   ELSE /\ qpc' = "gHydrate"
                        /\ pending' = productScoresOf(rel)
                        /\ matches' = <<>>
                        /\ UNCHANGED result
                /\ UNCHANGED inCatch
       ELSE /\ Finish(caughtResult, <<>>)
            /\ inCatch' = TRUE
            /\ UNCHANGED <<chunks, metaAtRetrieval, relevantChunks>>
    /\ UNCHANGED <<query, maxChunks, llmFailed>>
    /\ UNCHANGED storeVars
    /\ UNCHANGED indexVars
    /\ UNCHANGED outsideRag

\* Step 3, one product: await this.getProductMetadata(productId); after the
\* last product the deduplication, the sort and the return
G_Hydrate(readOk) ==
    /\ qpc = "gHydrate"
    /\ IF readOk
       THEN LET scores == Head(pending)
                meta == getProductMetadata(productMeta, scores.productId)
                ms == matches \o hydrated(scores, meta)
            IN  /\ IF Tail(pending) = <<>>
                   THEN Finish(foundResult(ms, relevantChunks), ms)
                   ELSE /\ pending' = Tail(pending)
                        /\ matches' = ms
                        /\ UNCHANGED <<qpc, result>>
                /\ UNCHANGED inCatch
       ELSE /\ Finish(caughtResult, matches)
            /\ inCatch' = TRUE
    /\ UNCHANGED <<query, maxChunks, chunks, metaAtRetrieval, relevantChunks, llmFailed>>
    /\ UNCHANGED storeVars
    /\ UNCHANGED indexVars
    /\ UNCHANGED outsideRag

(***************************************************************************)
(* The LLM confirmation path: retrieveRelevantChunks, queryLLMWithContext, *)
(* extractProductMatches, createFallbackMatches                            *)
(***************************************************************************)
\* Math.max(...chunks.filter(c => c.productId == id).map(c => c.similarity));
\* -Infinity (here -1) when no retrieved chunk is of that product
retrievalScoreOf(rel, id) ==
    LET mine == SelectSeq(rel, LAMBDA c : c.productId = id)
    IN  IF mine = <<>> THEN -1 ELSE MaxOf([i \in DOMAIN mine |-> mine[i].similarity])

\* extractProductMatches: the match of one LLM match, if its metadata is there
confirmed(llmMatch, meta, rel) ==
    IF meta # <<>>
    THEN <<[productId |-> meta[1].productId,
            title |-> meta[1].title,
            confidence |-> llmMatch.confidence,
            retrievalScore |-> retrievalScoreOf(rel, llmMatch.productId)]>>
    ELSE <<>>

\* createFallbackMatches: the match of one top chunk, if its metadata is
\* there; confidence: chunk.similarity * 0.8
fallbackMatch(chunk, meta) ==
    IF meta # <<>>
    THEN <<[productId |-> meta[1].productId,
            title |-> meta[1].title,
            confidence |-> (chunk.similarity * 8) \div 10,
            retrievalScore |-> chunk.similarity]>>
    ELSE <<>>

\* Variant: every retrieved chunk
everyChunkOf(rel) == rel

\* const topChunks = chunks.slice(0, 3)
topChunksOf(rel) == Prefix(rel, fallbackTop)

extractedResult(ms, rel) ==
    [op |-> "extractProductMatches", status |-> "resolved", matches |-> ms,
     reasoning |-> "", retrievedChunks |-> Len(rel)]

\* createFallbackMatches(chunks) is entered; with no chunk it returns []
StartFallback(fromCatch) ==
    /\ inCatch' = fromCatch
    /\ IF topChunksOf(relevantChunks) = <<>>
       THEN Finish(extractedResult(<<>>, relevantChunks), <<>>)
       ELSE /\ qpc' = "lFallback"
            /\ pending' = topChunksOf(relevantChunks)
            /\ matches' = <<>>
            /\ UNCHANGED result

\* a caller asks for retrieval and confirmation: retrieveRelevantChunks(query, mc)
L_Start(q, mc) ==
    /\ qpc = "idle"
    /\ qpc' = "lRetrieve"
    /\ query' = q
    /\ maxChunks' = mc
    /\ UNCHANGED <<chunks, metaAtRetrieval, relevantChunks, pending, matches, llmFailed,
                   inCatch, result>>
    /\ UNCHANGED storeVars
    /\ UNCHANGED indexVars
    /\ UNCHANGED outsideRag

\* retrieveRelevantChunks: await this.getAllChunks(), then the sort, the
\* filter and the slice.  Nothing catches a failed read.
L_Retrieve(readOk) ==
    /\ qpc = "lRetrieve"
    /\ IF CanOpenTransaction /\ readOk
       THEN /\ chunks' = productChunks
            /\ metaAtRetrieval' = productMeta
            /\ relevantChunks' = retrieveFrom(productChunks, query, maxChunks)
            /\ qpc' = "lQuery"
            /\ UNCHANGED <<pending, matches, result>>
       ELSE /\ Finish(rejectedResult("retrieveRelevantChunks"), <<>>)
            /\ UNCHANGED <<chunks, metaAtRetrieval, relevantChunks>>
    /\ UNCHANGED <<query, maxChunks, llmFailed, inCatch>>
    /\ UNCHANGED storeVars
    /\ UNCHANGED indexVars
    /\ UNCHANGED outsideRag

\* queryLLMWithContext resolves (callOk: whether callGroqAPI answered, with
\* response), and extractProductMatches parses the response
L_QueryLLM(callOk, response) ==
    /\ qpc = "lQuery"
    /\ llmFailed' = ~callOk
    /\ LET llmResponse == IF callOk THEN response ELSE LLMFailedResponse
       IN  IF ~llmResponse.parses
           THEN StartFallback(TRUE)
           ELSE IF llmResponse.matches = <<>>
                THEN StartFallback(FALSE)
                ELSE /\ qpc' = "lExtract"
                     /\ pending' = llmResponse.matches
                     /\ matches' = <<>>
                     /\ UNCHANGED <<inCatch, result>>
    /\ UNCHANGED <<query, maxChunks, chunks, metaAtRetrieval, relevantChunks>>
    /\ UNCHANGED storeVars
    /\ UNCHANGED indexVars
    /\ UNCHANGED outsideRag

\* extractProductMatches, one LLM match: await this.getProductMetadata(match.productId)
L_Extract(readOk) ==
    /\ qpc = "lExtract"
    /\ IF readOk
       THEN LET llmMatch == Head(pending)
                meta == getProductMetadata(productMeta, llmMatch.productId)
                ms == matches \o confirmed(llmMatch, meta, relevantChunks)
            IN  IF Tail(pending) # <<>>
                THEN /\ pending' = Tail(pending)
                     /\ matches' = ms
                     /\ UNCHANGED <<qpc, inCatch, result>>
                ELSE IF ms = <<>>
                     THEN StartFallback(FALSE)
                     ELSE /\ Finish(extractedResult(ms, relevantChunks), ms)
                          /\ UNCHANGED inCatch
       ELSE StartFallback(TRUE)
    /\ UNCHANGED <<query, maxChunks, chunks, metaAtRetrieval, relevantChunks, llmFailed>>
    /\ UNCHANGED storeVars
    /\ UNCHANGED indexVars
    /\ UNCHANGED outsideRag

\* createFallbackMatches, one top chunk: await this.getProductMetadata(chunk.productId).
\* A failed read inside the try block lands in the catch block, which starts
\* the fallback again; inside the catch block it rejects.
L_Fallback(readOk) ==
    /\ qpc = "lFallback"
    /\ IF readOk
       THEN LET chunk == Head(pending)
                meta == getProductMetadata(productMeta, chunk.productId)
                ms == matches \o fallbackMatch(chunk, meta)
            IN  /\ IF Tail(pending) # <<>>
                   THEN /\ pending' = Tail(pending)
                        /\ matches' = ms
                        /\ UNCHANGED <<qpc, result>>
                   ELSE Finish(extractedResult(ms, relevantChunks), ms)
                /\ UNCHANGED inCatch
       ELSE IF inCatch
            THEN /\ Finish(rejectedResult("extractProductMatches"), matches)
                 /\ UNCHANGED inCatch
            ELSE StartFallback(TRUE)
    /\ UNCHANGED <<query, maxChunks, chunks, metaAtRetrieval, relevantChunks, llmFailed>>
    /\ UNCHANGED storeVars
    /\ UNCHANGED indexVars
    /\ UNCHANGED outsideRag

\* the caller has the result; the next query may start
Q_Return ==
    /\ qpc = "done"
    /\ qpc' = "idle"
    /\ query' = <<>>
    /\ maxChunks' = 0
    /\ chunks' = <<>>
    /\ metaAtRetrieval' = <<>>
    /\ relevantChunks' = <<>>
    /\ pending' = <<>>
    /\ matches' = <<>>
    /\ llmFailed' = FALSE
    /\ inCatch' = FALSE
    /\ result' = NoResult
    /\ UNCHANGED storeVars
    /\ UNCHANGED indexVars
    /\ UNCHANGED outsideRag

(***************************************************************************)
(* ProductHighlighter: analyzeQuery                                        *)
(***************************************************************************)
DigitSeq == <<"0","1","2","3","4","5","6","7","8","9">>

DigitValue(c) == (CHOOSE i \in DOMAIN DigitSeq : DigitSeq[i] = c) - 1

IsDigit(c) == c \in DigitChars

\* the position after the spaces that start at i  (\s*)
RECURSIVE spacesEnd(_, _)
spacesEnd(s, i) == IF i <= Len(s) /\ IsSpace(s[i]) THEN spacesEnd(s, i + 1) ELSE i

\* the position after the digits that start at i  (\d+ when it is > i)
RECURSIVE digitsEnd(_, _)
digitsEnd(s, i) == IF i <= Len(s) /\ IsDigit(s[i]) THEN digitsEnd(s, i + 1) ELSE i

\* the position after (?:[.,]\d+)? at e
fractionEnd(s, e) ==
    IF e <= Len(s) /\ s[e] \in {".", ","} /\ digitsEnd(s, e + 1) > e + 1
    THEN digitsEnd(s, e + 1)
    ELSE e

\* the position after \d+(?:[.,]\d+)? at i, or i when it does not match
numberEnd(s, i) == IF digitsEnd(s, i) = i THEN i ELSE fractionEnd(s, digitsEnd(s, i))

CurrencyCodes ==
    << <<"u","s","d">>,
       <<"e","u","r">>,
       <<"g","b","p">> >>

\* the position after (\€|\$|£|usd|eur|gbp) at i (withCodes) or after
\* (\€|\$|£) at i, or i when it does not match
currencyEnd(s, i, withCodes) ==
    IF i <= Len(s) /\ s[i] \in CurrencyChars THEN i + 1
    ELSE IF withCodes /\ \E k \in DOMAIN CurrencyCodes : MatchAt(s, CurrencyCodes[k], i)
         THEN i + 3
         ELSE i

\* the integer the digits of s spell
RECURSIVE digitsValue(_)
digitsValue(s) ==
    IF s = <<>> THEN 0 ELSE digitsValue(SubSeq(s, 1, Len(s) - 1)) * 10 + DigitValue(s[Len(s)])

NaN == -1

\* parseFloat(s), in hundredths: the leading digits and, after a ".", the
\* first two decimals; NaN when s does not start with a digit
parseFloat(s) ==
    LET e == digitsEnd(s, 1)
        whole == digitsValue(SubSeq(s, 1, e - 1))
        f == IF e <= Len(s) /\ s[e] = "." THEN SubSeq(s, e + 1, digitsEnd(s, e + 1) - 1)
             ELSE <<>>
        cents == IF f = <<>> THEN 0
                 ELSE IF Len(f) = 1 THEN digitsValue(f) * 10
                 ELSE digitsValue(SubSeq(f, 1, 2))
    IN  IF e = 1 THEN NaN ELSE whole * 100 + cents

\* s.replace(',', '.'): the first comma
replaceComma(s) ==
    IF \E i \in DOMAIN s : s[i] = ","
    THEN LET k == CHOOSE i \in DOMAIN s : s[i] = "," /\ \A j \in 1..(i - 1) : s[j] # ","
         IN  [s EXCEPT ![k] = "."]
    ELSE s

MaxWords ==
    << <<"u","n","d","e","r">>,
       <<"b","e","l","o","w">>,
       <<"l","e","s","s"," ","t","h","a","n">>,
       <<"m","a","x">>,
       <<"m","a","x","i","m","u","m">> >>

MinWords ==
    << <<"a","b","o","v","e">>,
       <<"o","v","e","r">>,
       <<"m","o","r","e"," ","t","h","a","n">>,
       <<"m","i","n">>,
       <<"m","i","n","i","m","u","m">> >>

SuffixWords ==
    << <<"o","r"," ","l","e","s","s">>,
       <<"m","a","x">>,
       <<"m","a","x","i","m","u","m">> >>

\* One match of a regular expression: where it ends and its two groups
NoMatch == [end |-> 0, g1 |-> <<>>, g2 |-> <<>>]

\* the match whose groups are s[a..c-1] and s[b..e-1], when the number at b
\* is not empty and the match ends at a position end > 0
matchOf(s, a, c, b, e, end) ==
    IF e > b /\ end > 0
    THEN [end |-> end, g1 |-> SubSeq(s, a, c - 1), g2 |-> SubSeq(s, b, e - 1)]
    ELSE NoMatch

\* (\€|\$|£|usd|eur|gbp)?\s*(\d+(?:[.,]\d+)?) with the currency from a to c
currencyThenNumber(s, a, c) ==
    matchOf(s, a, c, spacesEnd(s, c), numberEnd(s, spacesEnd(s, c)),
            numberEnd(s, spacesEnd(s, c)))

\* word\s*(\€|\$|£|usd|eur|gbp)?\s*(\d+(?:[.,]\d+)?) at position i
matchOneWord(s, i, word) ==
    IF MatchAt(s, word, i)
    THEN currencyThenNumber(s, spacesEnd(s, i + Len(word)),
                            currencyEnd(s, spacesEnd(s, i + Len(word)), TRUE))
    ELSE NoMatch

firstMatch(ms) == IF ms = <<>> THEN NoMatch ELSE Head(ms)

\* (?:w1|w2|...)\s*(\€|\$|£|usd|eur|gbp)?\s*(\d+(?:[.,]\d+)?) at position i:
\* the first alternative with which the whole pattern matches
matchWordNumber(s, i, words) ==
    firstMatch(SelectSeq([k \in DOMAIN words |-> matchOneWord(s, i, words[k])],
                         LAMBDA m : m.end > 0))

\* whether one of the words follows at i
wordFollows(s, i, words) == \E k \in DOMAIN words : MatchAt(s, words[k], i)

wordEnd(s, i, words) ==
    i + Len(words[CHOOSE h \in DOMAIN words :
                      /\ MatchAt(s, words[h], i)
                      /\ \A h2 \in 1..(h - 1) : ~MatchAt(s, words[h2], i)])

\* the position after \s*(?:or less|max|maximum) at e, or 0 when it does not
\* match; e itself when the pattern has no suffix
suffixEnd(s, e, suffixed) ==
    IF ~suffixed THEN e
    ELSE IF wordFollows(s, spacesEnd(s, e), SuffixWords)
         THEN wordEnd(s, spacesEnd(s, e), SuffixWords)
         ELSE 0

\* (\€|\$|£)\s*(\d+(?:[.,]\d+)?) at i with the number from b to e
currencyNumber(s, i, c, b, e, suffixed) ==
    IF c > i THEN matchOf(s, i, c, b, e, suffixEnd(s, e, suffixed)) ELSE NoMatch

\* (\€|\$|£)\s*(\d+(?:[.,]\d+)?) at i, followed by \s*(?:or less|max|maximum)
\* when suffixed
matchCurrencyNumber(s, i, suffixed) ==
    currencyNumber(s, i, currencyEnd(s, i, FALSE),
                   spacesEnd(s, currencyEnd(s, i, FALSE)),
                   numberEnd(s, spacesEnd(s, currencyEnd(s, i, FALSE))), suffixed)

\* (\d+(?:[.,]\d+)?)\s*(currency) at i with the currency from a to c
numberCurrency(s, i, e, a, c, suffixed) ==
    IF e > i /\ c > a /\ suffixEnd(s, c, suffixed) > 0
    THEN [end |-> suffixEnd(s, c, suffixed),
          g1 |-> SubSeq(s, i, e - 1),
          g2 |-> SubSeq(s, a, c - 1)]
    ELSE NoMatch

\* (\d+(?:[.,]\d+)?)\s*(\€|\$|£|usd|eur|gbp) at i (withCodes) or
\* (\d+(?:[.,]\d+)?)\s*(\€|\$|£) at i, followed by \s*(?:or less|max|maximum)
\* when suffixed
matchNumberCurrency(s, i, withCodes, suffixed) ==
    numberCurrency(s, i, numberEnd(s, i), spacesEnd(s, numberEnd(s, i)),
                   currencyEnd(s, spacesEnd(s, numberEnd(s, i)), withCodes), suffixed)

\* The patterns of extractPriceConstraints (1 to 4) and of
\* extractPricesFromText (5, 6), matched at position i
matchPattern(s, i, pattern) ==
    CASE pattern = 1 -> matchWordNumber(s, i, MaxWords)
      [] pattern = 2 -> matchWordNumber(s, i, MinWords)
      [] pattern = 3 -> matchCurrencyNumber(s, i, TRUE)
      [] pattern = 4 -> matchNumberCurrency(s, i, TRUE, TRUE)
      [] pattern = 5 -> matchCurrencyNumber(s, i, FALSE)
      [] pattern = 6 -> matchNumberCurrency(s, i, FALSE, FALSE)

\* the positions from i on where the pattern matches
matchPositions(s, i, pattern) == {j \in i..Len(s) : matchPattern(s, j, pattern).end > 0}

\* where pattern.exec finds its match when it searches from position i on
firstOf(positions) == CHOOSE j \in positions : \A k \in positions : j <= k

\* while ((match = pattern.exec(s)) !== null): the matches from position i
\* on, left to right, each search starting where the last match ended
RECURSIVE execAll(_, _, _)
\* one turn of the loop: m is what pattern.exec found
execFrom(s, pattern, m) == <<m>> \o execAll(s, m.end, pattern)

execAll(s, i, pattern) ==
    IF matchPositions(s, i, pattern) = {} THEN <<>>
    ELSE execFrom(s, pattern, matchPattern(s, firstOf(matchPositions(s, i, pattern)), pattern))

\* match[2] || match[1]
secondOrFirst(m) == IF m.g2 # <<>> THEN m.g2 ELSE m.g1

\* match[1] || match[2] || '€'
firstOrSecond(m) == IF m.g1 # <<>> THEN m.g1 ELSE IF m.g2 # <<>> THEN m.g2 ELSE <<"€">>

\* the type extractPriceConstraints gives every constraint of a prompt
constraintType(prompt) ==
    IF \/ includes(prompt, <<"u","n","d","e","r">>)
       \/ includes(prompt, <<"b","e","l","o","w">>)
       \/ includes(prompt, <<"l","e","s","s">>)
       \/ includes(prompt, <<"m","a","x">>)
    THEN "max" ELSE "min"

\* the constraints pushed for the matches whose value is a number
constraintsOf(prompt, valid) ==
    [k \in DOMAIN valid |->
        [type |-> constraintType(prompt),
         value |-> parseFloat(secondOrFirst(valid[k])),
         currency |-> firstOrSecond(valid[k])]]

\* the constraints one pattern of extractPriceConstraints pushes
constraintsOfPattern(prompt, pattern) ==
    constraintsOf(prompt, SelectSeq(execAll(prompt, 1, pattern),
                                    LAMBDA m : parseFloat(secondOrFirst(m)) # NaN))

extractPriceConstraints(prompt) ==
    constraintsOfPattern(prompt, 1) \o constraintsOfPattern(prompt, 2)
        \o constraintsOfPattern(prompt, 3) \o constraintsOfPattern(prompt, 4)

\* parseFloat(priceStr.replace(',', '.')) of every match
priceValues(ms) == [k \in DOMAIN ms |-> parseFloat(replaceComma(secondOrFirst(ms[k])))]

\* the prices one pattern of extractPricesFromText pushes
pricesOfPattern(text, pattern) ==
    SelectSeq(priceValues(execAll(text, 1, pattern)), LAMBDA v : v # NaN)

extractPricesFromText(text) == pricesOfPattern(text, 5) \o pricesOfPattern(text, 6)

checkPriceConstraint(price, constraint) ==
    IF constraint.type = "max" THEN price <= constraint.value ELSE price >= constraint.value

commonBrands ==
    << <<"n","i","k","e">>,
       <<"a","d","i","d","a","s">>,
       <<"a","p","p","l","e">>,
       <<"s","a","m","s","u","n","g">>,
       <<"s","o","n","y">>,
       <<"m","i","c","r","o","s","o","f","t">>,
       <<"g","o","o","g","l","e">>,
       <<"a","m","a","z","o","n">>,
       <<"h","p">>,
       <<"d","e","l","l">>,
       <<"l","e","n","o","v","o">>,
       <<"a","s","u","s">>,
       <<"a","c","e","r">>,
       <<"l","g">>,
       <<"p","h","i","l","i","p","s">>,
       <<"b","o","s","c","h">>,
       <<"s","i","e","m","e","n","s">>,
       <<"w","h","i","r","l","p","o","o","l">>,
       <<"d","y","s","o","n">>,
       <<"b","o","s","e">>,
       <<"b","e","a","t","s">>,
       <<"j","b","l">> >>

colorNames ==
    << <<"w","h","i","t","e">>,
       <<"b","l","a","c","k">>,
       <<"r","e","d">>,
       <<"b","l","u","e">>,
       <<"g","r","e","e","n">>,
       <<"y","e","l","l","o","w">>,
       <<"o","r","a","n","g","e">>,
       <<"p","u","r","p","l","e">>,
       <<"p","i","n","k">>,
       <<"b","r","o","w","n">>,
       <<"g","r","a","y">>,
       <<"g","r","e","y">>,
       <<"s","i","l","v","e","r">>,
       <<"g","o","l","d">>,
       <<"b","e","i","g","e">>,
       <<"n","a","v","y">>,
       <<"t","u","r","q","u","o","i","s","e">>,
       <<"l","i","m","e">>,
       <<"m","a","r","o","o","n">>,
       <<"o","l","i","v","e">> >>

categoryWords ==
    << [category |-> "electronics",
        words |-> << <<"p","h","o","n","e">>,
                     <<"l","a","p","t","o","p">>,
                     <<"t","a","b","l","e","t">>,
                     <<"c","o","m","p","u","t","e","r">>,
                     <<"h","e","a","d","p","h","o","n","e","s">>,
                     <<"s","p","e","a","k","e","r">>,
                     <<"t","v">>,
                     <<"m","o","n","i","t","o","r">> >>],
       [category |-> "clothing",
        words |-> << <<"s","n","e","a","k","e","r","s">>,
                     <<"s","h","o","e","s">>,
                     <<"s","h","i","r","t">>,
                     <<"p","a","n","t","s">>,
                     <<"d","r","e","s","s">>,
                     <<"j","a","c","k","e","t">>,
                     <<"h","a","t">>,
                     <<"c","l","o","t","h","i","n","g">> >>],
       [category |-> "home",
        words |-> << <<"f","u","r","n","i","t","u","r","e">>,
                     <<"l","a","m","p">>,
                     <<"t","a","b","l","e">>,
                     <<"c","h","a","i","r">>,
                     <<"b","e","d">>,
                     <<"s","o","f","a">>,
                     <<"k","i","t","c","h","e","n">> >>],
       [category |-> "sports",
        words |-> << <<"f","i","t","n","e","s","s">>,
                     <<"g","y","m">>,
                     <<"r","u","n","n","i","n","g">>,
                     <<"b","a","s","k","e","t","b","a","l","l">>,
                     <<"f","o","o","t","b","a","l","l">>,
                     <<"t","e","n","n","i","s">> >>] >>

attributeWords ==
    << [type |-> "size", value |-> <<"s","m","a","l","l">>],
       [type |-> "size", value |-> <<"m","e","d","i","u","m">>],
       [type |-> "size", value |-> <<"l","a","r","g","e">>],
       [type |-> "size", value |-> <<"x","l">>],
       [type |-> "size", value |-> <<"x","x","l">>],
       [type |-> "size", value |-> <<"x","s">>],
       [type |-> "size", value |-> <<"s","i","z","e">>],
       [type |-> "material", value |-> <<"c","o","t","t","o","n">>],
       [type |-> "material", value |-> <<"l","e","a","t","h","e","r">>],
       [type |-> "material", value |-> <<"w","o","o","l">>],
       [type |-> "material", value |-> <<"s","i","l","k">>],
       [type |-> "material", value |-> <<"p","o","l","y","e","s","t","e","r">>],
       [type |-> "material", value |-> <<"d","e","n","i","m">>],
       [type |-> "material", value |-> <<"c","a","n","v","a","s">>],
       [type |-> "style", value |-> <<"c","a","s","u","a","l">>],
       [type |-> "style", value |-> <<"f","o","r","m","a","l">>],
       [type |-> "style", value |-> <<"s","p","o","r","t","y">>],
       [type |-> "style", value |-> <<"v","i","n","t","a","g","e">>],
       [type |-> "style", value |-> <<"m","o","d","e","r","n">>],
       [type |-> "style", value |-> <<"c","l","a","s","s","i","c">>],
       [type |-> "features", value |-> <<"w","a","t","e","r","p","r","o","o","f">>],
       [type |-> "features", value |-> <<"w","i","r","e","l","e","s","s">>],
       [type |-> "features", value |-> <<"b","l","u","e","t","o","o","t","h">>],
       [type |-> "features", value |-> <<"r","e","c","h","a","r","g","e","a","b","l","e">>],
       [type |-> "features", value |-> <<"p","o","r","t","a","b","l","e">>],
       [type |-> "features", value |-> <<"l","i","g","h","t","w","e","i","g","h","t">>] >>

priceWords ==
    << <<"u","n","d","e","r">>,
       <<"b","e","l","o","w">>,
       <<"l","e","s","s"," ","t","h","a","n">>,
       <<"m","a","x">>,
       <<"m","a","x","i","m","u","m">>,
       <<"a","b","o","v","e">>,
       <<"o","v","e","r">>,
       <<"m","o","r","e"," ","t","h","a","n">>,
       <<"m","i","n">>,
       <<"m","i","n","i","m","u","m">>,
       <<"c","o","s","t">>,
       <<"p","r","i","c","e">>,
       <<"b","u","d","g","e","t">>,
       <<"c","h","e","a","p">>,
       <<"e","x","p","e","n","s","i","v","e">> >>

filterWords ==
    << <<"t","h","a","t">>,
       <<"i","n">>,
       <<"w","i","t","h">>,
       <<"f","o","r">>,
       <<"o","r">>,
       <<"a","n","d">>,
       <<"t","h","e">>,
       <<"a">>,
       <<"a","n">> >>

extractBrands(prompt) == SelectSeq(commonBrands, LAMBDA brand : includes(prompt, brand))

extractCategories(prompt) ==
    LET detected == SelectSeq(categoryWords,
                        LAMBDA c : \E k \in DOMAIN c.words : includes(prompt, c.words[k]))
    IN  [k \in DOMAIN detected |-> detected[k].category]

extractColors(prompt) == SelectSeq(colorNames, LAMBDA color : testWord(prompt, color))

extractAttributes(prompt) == SelectSeq(attributeWords, LAMBDA attr : includes(prompt, attr.value))

\* s.replace(new RegExp(`\\b${word}\\b`, 'gi'), ''): every character covered
\* by a match is left out. A match starts and ends at a word boundary and no
\* word of the lists is a prefix of one of its own suffixes, so two matches
\* never overlap and every position matching is a match taken
matchStarts(s, lower, lowerWord) == {i \in 1..Len(s) : WordAt(s, lower, lowerWord, i)}

uncovered(s, starts, len) ==
    SelectSeq([i \in 1..Len(s) |-> i],
              LAMBDA i : ~\E j \in starts : j <= i /\ i < j + len)

lettersAt(s, positions) == [k \in DOMAIN positions |-> s[positions[k]]]

removeWord(s, word) ==
    lettersAt(s, uncovered(s, matchStarts(s, toLowerCase(s), toLowerCase(word)), Len(word)))

RECURSIVE removeWords(_, _)
removeWords(s, words) ==
    IF s = <<>> \/ words = <<>> THEN s
    ELSE removeWords(removeWord(s, Head(words)), Tail(words))

\* s.replace(/[€$£]\s*\d+(?:[.,]\d+)?/g, '') (pattern 5) and
\* s.replace(/\d+(?:[.,]\d+)?\s*[€$£]/g, '') (pattern 6), from position i on
RECURSIVE removePatternFrom(_, _, _)
\* the match found at position j is left out, the characters before it are
\* kept
removeMatch(s, pattern, i, j) ==
    SubSeq(s, i, j - 1) \o removePatternFrom(s, pattern, matchPattern(s, j, pattern).end)

removePatternFrom(s, pattern, i) ==
    IF matchPositions(s, i, pattern) = {} THEN SubSeq(s, i, Len(s))
    ELSE removeMatch(s, pattern, i, firstOf(matchPositions(s, i, pattern)))

cleanQuery(prompt, brands, colors, attributes) ==
    LET noPriceWords == removeWords(prompt, priceWords)
        noPrices == removePatternFrom(removePatternFrom(noPriceWords, 5, 1), 6, 1)
        noBrands == removeWords(noPrices, brands)
        noColors == removeWords(noBrands, colors)
        noAttributes == removeWords(noColors, [k \in DOMAIN attributes |-> attributes[k].value])
    IN  trim(removeWords(noAttributes, filterWords))

\* /^\d+$/.test(word)
IsNumber(word) == word # <<>> /\ \A i \in DOMAIN word : IsDigit(word[i])

extractMeaningfulKeywords(cleanedQuery) ==
    SelectSeq(splitWhitespace(cleanedQuery), LAMBDA word : Len(word) > 2 /\ ~IsNumber(word))

analyzeQuery(userPrompt) ==
    LET prompt == toLowerCase(userPrompt)
        priceConstraints == extractPriceConstraints(prompt)
        brands == extractBrands(prompt)
        categories == extractCategories(prompt)
        colors == extractColors(prompt)
        attributes == extractAttributes(prompt)
        cleanedQuery == cleanQuery(prompt, brands, colors, attributes)
    IN  [coreQuery |-> cleanedQuery,
         keywords |-> extractMeaningfulKeywords(cleanedQuery),
         priceConstraints |-> priceConstraints,
         brands |-> brands,
         categories |-> categories,
         colors |-> colors,
         attributes |-> attributes,
         hasPrice |-> priceConstraints # <<>>,
         hasBrand |-> brands # <<>>,
         hasColor |-> colors # <<>>,
         hasAttributes |-> attributes # <<>>]

(***************************************************************************)
(* ProductHighlighter: calculateMatchScore                                 *)
(***************************************************************************)
\* A sub-score n/d is the integer n * ScoreUnit / d; every d the samples give
\* divides ScoreUnit.  A weight is in hundredths, so a score s is the integer
\* s * 100 * ScoreUnit.
ScoreUnit == 2520

ratio(n, d) == (n * ScoreUnit) \div d

ScoreOne == 100 * ScoreUnit

count(s, Test(_)) == Len(SelectSeq(s, Test))

\* the set of the elements of a sequence: new Set(...)
calculateKeywordScore(productText, keywords) ==
    IF keywords = <<>> THEN 0
    ELSE ratio(count(keywords, LAMBDA keyword : includes(productText, keyword)),
               Len(keywords))

calculateExactScore(productText, keywords) ==
    IF keywords = <<>> THEN 0
    ELSE ratio(count(keywords, LAMBDA keyword : testWord(productText, keyword)),
               Len(keywords))

calculateSemanticSimilarity(text1, text2) ==
    LET words1 == SelectSeq(splitNonWord(toLowerCase(text1)), LAMBDA w : Len(w) > 2)
        words2 == SelectSeq(splitNonWord(toLowerCase(text2)), LAMBDA w : Len(w) > 2)
        commonWords == count(words1, LAMBDA word : word \in Range(words2))
        totalWords == Cardinality(Range(words1) \cup Range(words2))
    IN  ratio(commonWords, Max(totalWords, 1))

\* prices.some(price => priceConstraints.every(constraint => ...))
somePriceMeetsAll(prices, priceConstraints) ==
    \E i \in DOMAIN prices :
        \A k \in DOMAIN priceConstraints : checkPriceConstraint(prices[i], priceConstraints[k])

calculatePriceScore(productText, priceConstraints) ==
    IF priceConstraints = <<>> THEN ratio(1, 1)
    ELSE LET prices == extractPricesFromText(productText)
         IN  IF prices = <<>> THEN ratio(1, 2)
             ELSE IF somePriceMeetsAll(prices, priceConstraints) THEN ratio(1, 1) ELSE 0

calculateBrandScore(productText, brands) ==
    IF brands = <<>> THEN ratio(1, 1)
    ELSE ratio(count(brands, LAMBDA brand : includes(productText, brand)), Len(brands))

calculateCategoryScore(productText, categories) == ratio(1, 1)

calculateColorScore(productText, colors) ==
    IF colors = <<>> THEN ratio(1, 1)
    ELSE ratio(count(colors, LAMBDA color : testWord(productText, color)), Len(colors))

calculateAttributeScore(productText, attributes) ==
    IF attributes = <<>> THEN ratio(1, 1)
    ELSE ratio(count(attributes, LAMBDA attr : testWord(productText, attr.value)),
               Len(attributes))

\* Variant: the weights of a query without any constraint, whatever the query
defaultWeights(queryAnalysis) ==
    [keyword |-> 25, exact |-> 20, semantic |-> 15, price |-> 5, brand |-> 5,
     category |-> 5, color |-> 15, attributes |-> 10]

\* the weights, in hundredths
getAdaptiveWeights(queryAnalysis) ==
    [keyword |-> IF \/ queryAnalysis.hasPrice \/ queryAnalysis.hasBrand
                    \/ queryAnalysis.hasColor \/ queryAnalysis.hasAttributes
                 THEN 20 ELSE 25,
     exact |-> 20,
     semantic |-> 15,
     price |-> IF queryAnalysis.hasPrice THEN 15 ELSE 5,
     brand |-> IF queryAnalysis.hasBrand THEN 15 ELSE 5,
     category |-> 5,
     color |-> IF queryAnalysis.hasColor THEN 20 ELSE 15,
     attributes |-> IF queryAnalysis.hasAttributes THEN 15 ELSE 10]

combineScores(scores, weights) ==
    scores.keyword * weights.keyword + scores.exact * weights.exact
        + scores.semantic * weights.semantic + scores.price * weights.price
        + scores.brand * weights.brand + scores.category * weights.category
        + scores.color * weights.color + scores.attributes * weights.attributes

\* 0.05 for each keyword of the allowlist
calculateHighPerformingBoost(keywords, highPerforming) ==
    count(keywords, LAMBDA keyword : keyword \in Range(highPerforming)) * 5 * ScoreUnit

\* Variant: the sum as it is
unclamped(score) == score

\* Math.min(baseScore + highPerformingBoost, 1.0)
clamp(score) == Min(score, ScoreOne)

\* whether checkCoreRequirements counts a keyword as matched
keywordMatches(productLower, keyword) ==
    \/ includes(productLower, keyword)
    \/ includes(productLower, keyword \o <<"s">>)
    \/ includes(productLower, SubSeq(keyword, 1, Len(keyword) - 1))
    \/ (keyword = <<"s","n","e","a","k","e","r","s">> /\ includes(productLower, <<"s","n","e","a","k","e","r">>))
    \/ (keyword = <<"s","n","e","a","k","e","r">> /\ includes(productLower, <<"s","n","e","a","k","e","r","s">>))

\* Variant: Math.max(1, Math.floor(keywords.length * 0.5))
keywordThresholdFloor(n) == Max(1, n \div 2)

\* Math.max(1, Math.ceil(keywords.length * 0.5))
keywordThreshold(n) == Max(1, (n + 1) \div 2)

\* the four checks of checkCoreRequirements
keywordsPass(productText, queryAnalysis) ==
    queryAnalysis.keywords # <<>> =>
        count(queryAnalysis.keywords,
              LAMBDA keyword : keywordMatches(toLowerCase(productText), keyword))
            >= keywordThreshold(Len(queryAnalysis.keywords))

\* Variant: a color passes when the text includes it anywhere
colorsPassIncluded(productText, queryAnalysis) ==
    queryAnalysis.colors # <<>> =>
        \E k \in DOMAIN queryAnalysis.colors :
            includes(toLowerCase(productText), queryAnalysis.colors[k])

colorsPass(productText, queryAnalysis) ==
    queryAnalysis.colors # <<>> =>
        \E k \in DOMAIN queryAnalysis.colors : testWord(productText, queryAnalysis.colors[k])

brandsPass(productText, queryAnalysis) ==
    queryAnalysis.brands # <<>> =>
        \E k \in DOMAIN queryAnalysis.brands : testWord(productText, queryAnalysis.brands[k])

\* Variant: a text without a price fails the price constraints
pricesPassStrict(productText, queryAnalysis) ==
    queryAnalysis.priceConstraints # <<>> =>
        somePriceMeetsAll(extractPricesFromText(productText), queryAnalysis.priceConstraints)

pricesPass(productText, queryAnalysis) ==
    queryAnalysis.priceConstraints # <<>> =>
        LET prices == extractPricesFromText(productText)
        IN  prices = <<>> \/ somePriceMeetsAll(prices, queryAnalysis.priceConstraints)

checkCoreRequirements(productText, queryAnalysis) ==
    /\ keywordsPass(productText, queryAnalysis)
    /\ colorsPass(productText, queryAnalysis)
    /\ brandsPass(productText, queryAnalysis)
    /\ pricesPass(productText, queryAnalysis)

\* the fallback of calculateMatchScore when no criterion was extracted
simpleMatchScore(productText, prompt) ==
    LET promptWords == SelectSeq(splitWhitespace(toLowerCase(prompt)), LAMBDA w : Len(w) > 2)
        found == count(promptWords, LAMBDA word : includes(toLowerCase(productText), word))
        simpleScore == 100 * ratio(found, Max(Len(promptWords), 1))
    IN  IF 2 * simpleScore > ScoreOne THEN simpleScore ELSE 0

\* baseScore: the weighted sum of the eight scores
baseScoreOf(productText, queryAnalysis) ==
    LET productLower == toLowerCase(productText)
        scores ==
            [keyword |-> calculateKeywordScore(productLower, queryAnalysis.keywords),
             exact |-> calculateExactScore(productLower, queryAnalysis.keywords),
             semantic |-> calculateSemanticSimilarity(productText, queryAnalysis.coreQuery),
             price |-> calculatePriceScore(productText, queryAnalysis.priceConstraints),
             brand |-> calculateBrandScore(productLower, queryAnalysis.brands),
             category |-> calculateCategoryScore(productLower, queryAnalysis.categories),
             color |-> calculateColorScore(productLower, queryAnalysis.colors),
             attributes |-> calculateAttributeScore(productLower, queryAnalysis.attributes)]
    IN  combineScores(scores, getAdaptiveWeights(queryAnalysis))

\* the score of a product that passed checkCoreRequirements
qualityScore(productText, queryAnalysis, highPerforming) ==
    clamp(baseScoreOf(productText, queryAnalysis)
            + calculateHighPerformingBoost(queryAnalysis.keywords, highPerforming))

\* calculateMatchScore, given the analysis of the prompt
matchScore(productText, prompt, queryAnalysis, highPerforming) ==
    IF /\ queryAnalysis.keywords = <<>>
       /\ queryAnalysis.colors = <<>>
       /\ queryAnalysis.brands = <<>>
       /\ queryAnalysis.priceConstraints = <<>>
    THEN simpleMatchScore(productText, prompt)
    ELSE IF ~checkCoreRequirements(productText, queryAnalysis) THEN 0
    ELSE qualityScore(productText, queryAnalysis, highPerforming)

(***************************************************************************)
(* ProductHighlighter: inputs and state                                    *)
(***************************************************************************)
\* The number of segments a sample prompt is made of
MaxPromptSegments == 3

PromptSegments ==
    << <<"w","h","i","t","e">>,
       <<"n","i","k","e">>,
       <<"r","u","n","n","i","n","g">>,
       <<"s","n","e","a","k","e","r","s">>,
       <<"s","h","o","e","s">>,
       <<"w","i","r","e","l","e","s","s">>,
       <<"o","v","e","r"," ","2","0">>,
       <<"u","n","d","e","r"," ","5","0">> >>

\* the segments at the positions picked, in the order above
segmentsAt(picked) ==
    LET positions == SelectSeq([i \in DOMAIN PromptSegments |-> i], LAMBDA i : i \in picked)
    IN  [k \in DOMAIN positions |-> PromptSegments[positions[k]]]

\* The sample prompts: up to MaxPromptSegments of the segments, joined by
\* spaces
Prompts ==
    {joinSpace(segmentsAt(picked)) :
        picked \in {p \in SUBSET DOMAIN PromptSegments :
                        Cardinality(p) \in 1..MaxPromptSegments}}

ProductTexts ==
    { <<"N","i","k","e"," ","-"," ","S","n","e","a","k","e","r"," ","l","o","w"," ","-"," ","w","h","i","t","e">>,
      <<"P","U","L","L","&","B","E","A","R"," ","-"," ","S","n","e","a","k","e","r"," ","l","o","w"," ","-"," ","g","r","e","y">>,
      <<"N","i","k","e"," ","s","n","e","a","k","e","r","s"," ","w","h","i","t","e"," ","€","4","5">>,
      <<"n","i","k","e"," ","r","u","n","n","i","n","g"," ","s","h","o","e","s"," ","$","6","0">>,
      <<"W","h","i","t","e","b","o","a","r","d"," ","s","h","o","e"," ","3","0","€">>,
      <<"C","u","s","t","o","m","e","r"," ","R","e","v","i","e","w","s"," ","a","n","d"," ","R","a","t","i","n","g","s"," ","f","o","r"," ","E","l","e","c","t","r","o","n","i","c","s">>,
      <<"n","i","k","e"," ","s","n","e","a","k","e","r","s">>,
      <<"r","e","d"," ","s","h","o","e","s"," ","€","1","0"," ","€","7","0">> }

\* The sample allowlists (this.highPerformingKeywords)
Allowlists == {<<>>, << <<"s","n","e","a","k","e","r","s">>, <<"s","h","o","e","s">> >>}

NoAnalysis ==
    [coreQuery |-> <<>>, keywords |-> <<>>, priceConstraints |-> <<>>, brands |-> <<>>,
     categories |-> <<>>, colors |-> <<>>, attributes |-> <<>>, hasPrice |-> FALSE,
     hasBrand |-> FALSE, hasColor |-> FALSE, hasAttributes |-> FALSE]

\* No score is being computed
ScoreOff ==
    /\ promptGiven = <<>>
    /\ textGiven = <<>>
    /\ highPerformingKeywords = <<>>
    /\ analysis = NoAnalysis
    /\ finalScore = 0
    /\ spc = "off"

\* No re-indexing scenario is running
ReindexOff ==
    /\ rpc = "off"
    /\ rproduct = <<>>
    /\ matchesOnce = <<>>
    /\ matchesTwice = <<>>

NoFailure == [kind |-> "none", how |-> "none", records |-> <<>>, at |-> 0, pass |-> 0]

\* No transaction was created
TxOff ==
    /\ tpc = "idle"
    /\ tcall = 0
    /\ tbatch = <<>>
    /\ tresult = "none"
    /\ passes = 0
    /\ clears = 0
    /\ txQueue = <<>>
    /\ writeLog = <<>>
    /\ chunkEpochs = <<>>
    /\ metaEpochs = <<>>
    /\ chunksCleared = 0
    /\ metaCleared = 0
    /\ failed = NoFailure

\* The number of detectProducts calls in flight at once
MaxCalls == 3

Calls == 1..MaxCalls

\* the content script before any event
CaptureOff ==
    /\ isEnabled = FALSE
    /\ hasPrompt = FALSE
    /\ isCapturing = FALSE
    /\ captureCompleted = FALSE
    /\ isScrolling = FALSE
    /\ dpc = [i \in Calls |-> "free"]
    /\ scrolls = 0
    /\ highlighted = FALSE
    /\ toolbarHidden = FALSE
    /\ edgeVisible = FALSE
    /\ hideTimers = 0
    /\ edgeTimers = 0

NoChunks == [status |-> "none", chunks |-> <<>>, metadata |-> <<>>]

ChunkOff ==
    /\ cpc = "off"
    /\ cbatch = <<>>
    /\ cresult = NoChunks

\* the enhancer before any call
GroqOff ==
    /\ groqEnabled = FALSE
    /\ batchQueue = <<>>
    /\ batchTimer = FALSE
    /\ inFlight = {}
    /\ promises = <<>>
    /\ cache = <<>>

\* no value yet
NotComputed == -1

\* the popup never opened, the storage as onInstalled leaves it
PopupOff ==
    /\ storedThreshold = 60
    /\ applied = FALSE
    /\ popupOpen = FALSE
    /\ sliderValue = 0
    /\ thresholdLabel = 0

\* getAdjustedThreshold not called
AdjustOff ==
    /\ threshold = 60
    /\ thresholdPrompt = <<>>
    /\ adjustedThreshold = NotComputed

SettingsOff == PopupOff /\ AdjustOff

PageOff == CaptureOff /\ ChunkOff /\ GroqOff /\ SettingsOff

\* calculateMatchScore(productText, userPrompt)
CalculateMatchScore ==
    /\ spc = "ready"
    /\ LET queryAnalysis == analyzeQuery(promptGiven)
       IN  /\ analysis' = queryAnalysis
           /\ finalScore' = matchScore(textGiven, promptGiven, queryAnalysis,
                                       highPerformingKeywords)
    /\ spc' = "scored"
    /\ UNCHANGED <<promptGiven, textGiven, highPerformingKeywords>>
    /\ UNCHANGED outsideScore

(***************************************************************************)
(* Specification of the RAG system                                         *)
(***************************************************************************)
RagInit ==
    /\ db = "null"
    /\ productChunks = <<>>
    /\ productMeta = <<>>
    /\ ipc = "idle"
    /\ ibatch = <<>>
    /\ indexed = 0
    /\ iresult = "none"
    /\ qpc = "idle"
    /\ query = <<>>
    /\ maxChunks = 0
    /\ chunks = <<>>
    /\ metaAtRetrieval = <<>>
    /\ relevantChunks = <<>>
    /\ pending = <<>>
    /\ matches = <<>>
    /\ llmFailed = FALSE
    /\ inCatch = FALSE
    /\ result = NoResult

Init == RagInit /\ ScoreOff /\ ReindexOff /\ TxOff /\ PageOff

Next ==
    \/ OpenDatabase
    \/ \E batch \in Batches : I_Start(batch)
    \/ I_StoreChunks
    \/ I_StoreMetadata
    \/ \E q \in QueryEmbeddings : G_Start(q)
    \/ \E readOk \in BOOLEAN : G_Retrieve(readOk)
    \/ \E readOk \in BOOLEAN : G_Hydrate(readOk)
    \/ \E q \in QueryEmbeddings, mc \in MaxChunksArgs : L_Start(q, mc)
    \/ \E readOk \in BOOLEAN : L_Retrieve(readOk)
    \/ \E callOk \in BOOLEAN, response \in LLMResponses : L_QueryLLM(callOk, response)
    \/ \E readOk \in BOOLEAN : L_Extract(readOk)
    \/ \E readOk \in BOOLEAN : L_Fallback(readOk)
    \/ Q_Return

vars == <<ragVars, scoreVars, reindexVars, txVars, pageVars>>

Spec == Init /\ [][Next]_vars

(***************************************************************************)
(* Specification of the scorer: calculateMatchScore applied to every       *)
(* sample prompt, product text and allowlist                               *)
(***************************************************************************)
InitScore ==
    /\ RagInit
    /\ ReindexOff
    /\ TxOff
    /\ PageOff
    /\ promptGiven \in Prompts
    /\ textGiven \in ProductTexts
    /\ highPerformingKeywords \in Allowlists
    /\ analysis = NoAnalysis
    /\ finalScore = 0
    /\ spc = "ready"

NextScore == CalculateMatchScore

SpecScore == InitScore /\ [][NextScore]_vars

(***************************************************************************)
(* Re-indexing: processProductsForRAG run twice on the same product, with  *)
(* generateWithRAG after each pass.  The store starts with the chunks and  *)
(* the metadata of other products of the page.  Specification SpecReindex. *)
(***************************************************************************)
\* The largest number of chunks another product of the page already has in
\* the store
MaxFillers == 98

FillerCounts == {0, 1, MaxFillers - 1, MaxFillers}

TitleFiller == <<"S","o","c","k","s">>

\* another product of the page, of n chunks (a title chunk and the chunks of
\* a long description)
Filler(n) == [productId |-> 4, title |-> TitleFiller, embeddings |-> [i \in 1..n |-> <<6, 8, 0, 0>>]]

\* Step 3 of generateWithRAG for every entry of productScores
RECURSIVE hydrateAll(_, _)
hydrateAll(scores, metaStore) ==
    IF scores = <<>> THEN <<>>
    ELSE hydrated(Head(scores), getProductMetadata(metaStore, Head(scores).productId))
             \o hydrateAll(Tail(scores), metaStore)

\* generateWithRAG from the retrieved chunks on: its matches
matchesFrom(rel, metaStore) ==
    IF rel = <<>> THEN <<>> ELSE finalMatchesOf(hydrateAll(productScoresOf(rel), metaStore))

\* the matches generateWithRAG(query) returns when no read fails and nothing
\* else touches the stores meanwhile
generateWithRAG(chunkStore, metaStore, queryEmbedding) ==
    matchesFrom(retrieveFrom(chunkStore, queryEmbedding, maxRetrievedChunks), metaStore)

InitReindex ==
    /\ \E n \in FillerCounts, other \in Products :
          /\ productChunks = chunksOfBatch(<<Filler(n), other>>)
          /\ productMeta = metadataOfBatch(<<Filler(n), other>>)
    /\ db = "open"
    /\ query \in QueryEmbeddings
    /\ rproduct \in {<<p>> : p \in Products}
    /\ rpc = "start"
    /\ matchesOnce = <<>>
    /\ matchesTwice = <<>>
    /\ ipc = "idle"
    /\ ibatch = <<>>
    /\ indexed = 0
    /\ iresult = "none"
    /\ qpc = "idle"
    /\ maxChunks = 0
    /\ chunks = <<>>
    /\ metaAtRetrieval = <<>>
    /\ relevantChunks = <<>>
    /\ pending = <<>>
    /\ matches = <<>>
    /\ llmFailed = FALSE
    /\ inCatch = FALSE
    /\ result = NoResult
    /\ ScoreOff
    /\ TxOff
    /\ PageOff

\* processProductsForRAG(rproduct), from the call to its return
R_Index ==
    /\ rpc \in {"start", "queriedOnce"}
    /\ CanOpenTransaction
    /\ productChunks' = productChunks \o chunksOfBatch(rproduct)
    /\ productMeta' = productMeta \o metadataOfBatch(rproduct)
    /\ rpc' = IF rpc = "start" THEN "indexedOnce" ELSE "indexedTwice"
    /\ UNCHANGED <<db, rproduct, matchesOnce, matchesTwice>>
    /\ UNCHANGED indexVars
    /\ UNCHANGED queryVars
    /\ UNCHANGED outsideReindex

\* generateWithRAG(query), from the call to its return
R_Generate ==
    /\ rpc \in {"indexedOnce", "indexedTwice"}
    /\ CanOpenTransaction
    /\ IF rpc = "indexedOnce"
       THEN /\ matchesOnce' = generateWithRAG(productChunks, productMeta, query)
            /\ rpc' = "queriedOnce"
            /\ UNCHANGED matchesTwice
       ELSE /\ matchesTwice' = generateWithRAG(productChunks, productMeta, query)
            /\ rpc' = "queriedTwice"
            /\ UNCHANGED matchesOnce
    /\ UNCHANGED rproduct
    /\ UNCHANGED storeVars
    /\ UNCHANGED indexVars
    /\ UNCHANGED queryVars
    /\ UNCHANGED outsideReindex

NextReindex ==
    \/ R_Index
    \/ R_Generate

SpecReindex == InitReindex /\ [][NextReindex]_vars

(***************************************************************************)
(* The stores as IndexedDB runs them.  store.add and store.clear return a  *)
(* request, not a promise: "await" does not wait for it, so storeChunks,   *)
(* storeMetadata and clearRAGDatabase return once their requests are       *)
(* issued and the transaction finishes later, committing all its requests  *)
(* or, when one of them fails, none.  Transactions on a common store       *)
(* finish in the order they were created; a read waits for the earlier     *)
(* writes of its store.  Specification SpecStore.                          *)
(***************************************************************************)
\* The number of indexing passes and of clearRAGDatabase calls of a run
MaxPasses == 2
MaxClears == 1

ProductOf(id) == CHOOSE p \in Products : p.productId = id

\* The batches handed to processProductsForRAG
StoreBatches == {<<ProductOf(1)>>, <<ProductOf(3), ProductOf(1)>>}

\* Variant: the metadata stored before the chunks
storeCallsReversed == <<"storeMetadata", "storeChunks">>

\* the store calls of processProductsForRAG, in program order
storeCalls == <<"storeChunks", "storeMetadata">>

\* the object store a store call writes, and what it writes
storeOf(call) == IF call = "storeChunks" THEN "productChunks" ELSE "productMeta"

recordsOf(call, batch) ==
    IF call = "storeChunks" THEN chunksOfBatch(batch) ELSE metadataOfBatch(batch)

\* Variant: one transaction for each store
clearSeparately == << {"productChunks"}, {"productMeta"} >>

\* the transactions clearRAGDatabase opens, each with the stores it clears
clearTransactions == << {"productChunks", "productMeta"} >>

AddTx(call, records, pass) ==
    [kind |-> "add", scope |-> {storeOf(call)}, call |-> call, records |-> records,
     pass |-> pass]

ClearTx(scope) ==
    [kind |-> "clear", scope |-> scope, call |-> "clearRAGDatabase", records |-> <<>>,
     pass |-> 0]

\* the add requests a store call issues for its records
requestsOf(call, records, pass) ==
    [i \in DOMAIN records |->
        [store |-> storeOf(call), productId |-> records[i].productId, pass |-> pass]]

InitStore == RagInit /\ ScoreOff /\ ReindexOff /\ TxOff /\ PageOff

\* processProductsForRAG(products), up to its first store call
T_Start(batch) ==
    /\ tpc = "idle"
    /\ passes < MaxPasses
    /\ tpc' = "storing"
    /\ tcall' = 1
    /\ tbatch' = batch
    /\ tresult' = "none"
    /\ passes' = passes + 1
    /\ UNCHANGED <<clears, txQueue, writeLog, chunkEpochs, metaEpochs, chunksCleared,
                   metaCleared, failed>>
    /\ UNCHANGED ragVars
    /\ UNCHANGED outsideTx

\* the pass ends: it resolves or rejects to its caller
passEnds(how) ==
    /\ tpc' = "idle"
    /\ tcall' = 0
    /\ tbatch' = <<>>
    /\ tresult' = how

\* the store call issued its requests and returned
callReturns ==
    IF tcall < Len(storeCalls)
    THEN /\ tcall' = tcall + 1
         /\ UNCHANGED <<tpc, tbatch, tresult>>
    ELSE passEnds("resolved")

\* await this.storeChunks(chunks), await this.storeMetadata(metadata): the
\* transaction is opened and store.add is called for record after record.
\* throwAt is the record at which store.add throws (0: at none).
T_Store ==
    /\ tpc = "storing"
    /\ \E throwAt \in 0..Len(recordsOf(storeCalls[tcall], tbatch)) :
          IF ~CanOpenTransaction
          THEN /\ throwAt = 0
               /\ passEnds("rejected")
               /\ UNCHANGED <<txQueue, writeLog, failed>>
          ELSE IF throwAt = 0
               THEN /\ txQueue' = Append(txQueue, AddTx(storeCalls[tcall],
                                            recordsOf(storeCalls[tcall], tbatch), passes))
                    /\ writeLog' = writeLog \o requestsOf(storeCalls[tcall],
                                            recordsOf(storeCalls[tcall], tbatch), passes)
                    /\ callReturns
                    /\ UNCHANGED failed
               ELSE /\ txQueue' = Append(txQueue, AddTx(storeCalls[tcall],
                                            Prefix(recordsOf(storeCalls[tcall], tbatch),
                                                   throwAt - 1), passes))
                    /\ writeLog' = writeLog \o requestsOf(storeCalls[tcall],
                                            Prefix(recordsOf(storeCalls[tcall], tbatch),
                                                   throwAt - 1), passes)
                    /\ failed' = [kind |-> storeCalls[tcall], how |-> "throw",
                                  records |-> recordsOf(storeCalls[tcall], tbatch),
                                  at |-> throwAt, pass |-> passes]
                    /\ passEnds("rejected")
    /\ UNCHANGED <<passes, clears, chunkEpochs, metaEpochs, chunksCleared, metaCleared>>
    /\ UNCHANGED ragVars
    /\ UNCHANGED outsideTx

\* a transaction can finish once no earlier one shares a store with it
canFinish(i) == \A j \in 1..(i - 1) : txQueue[j].scope \cap txQueue[i].scope = {}

\* the clears done so far: what a record written now is tagged with
epochNow == Max(chunksCleared, metaCleared)

epochsOf(records) == [k \in DOMAIN records |-> epochNow]

\* the transaction commits: its adds are in the store, its clears emptied it
commits(tx) ==
    /\ productChunks' = IF "productChunks" \notin tx.scope THEN productChunks
                        ELSE IF tx.kind = "clear" THEN <<>>
                        ELSE productChunks \o tx.records
    /\ chunkEpochs' = IF "productChunks" \notin tx.scope THEN chunkEpochs
                      ELSE IF tx.kind = "clear" THEN <<>>
                      ELSE chunkEpochs \o epochsOf(tx.records)
    /\ productMeta' = IF "productMeta" \notin tx.scope THEN productMeta
                      ELSE IF tx.kind = "clear" THEN <<>>
                      ELSE productMeta \o tx.records
    /\ metaEpochs' = IF "productMeta" \notin tx.scope THEN metaEpochs
                     ELSE IF tx.kind = "clear" THEN <<>>
                     ELSE metaEpochs \o epochsOf(tx.records)
    /\ chunksCleared' = IF tx.kind = "clear" /\ "productChunks" \in tx.scope
                        THEN epochNow + 1 ELSE chunksCleared
    /\ metaCleared' = IF tx.kind = "clear" /\ "productMeta" \in tx.scope
                      THEN epochNow + 1 ELSE metaCleared
    /\ UNCHANGED failed

\* a request of the transaction fails and nothing handles the error event:
\* the transaction aborts and none of its requests takes effect
aborts(tx) ==
    /\ tx.kind = "add" => tx.records # <<>>
    /\ \E k \in DOMAIN tx.records \cup {0} :
          /\ k = 0 <=> tx.kind = "clear"
          /\ failed' = IF tx.kind = "add"
                       THEN [kind |-> tx.call, how |-> "abort", records |-> tx.records,
                             at |-> k, pass |-> tx.pass]
                       ELSE failed
    /\ UNCHANGED <<productChunks, productMeta, chunkEpochs, metaEpochs, chunksCleared,
                   metaCleared>>

\* a transaction finishes: complete (ok) or abort
T_Complete(ok) ==
    /\ \E i \in DOMAIN txQueue :
          /\ canFinish(i)
          /\ txQueue' = RemoveAt(txQueue, i)
          /\ IF ok THEN commits(txQueue[i]) ELSE aborts(txQueue[i])
    /\ UNCHANGED <<tpc, tcall, tbatch, tresult, passes, clears, writeLog>>
    /\ UNCHANGED db
    /\ UNCHANGED indexVars
    /\ UNCHANGED queryVars
    /\ UNCHANGED outsideTx

\* clearRAGDatabase(): the transaction is opened and store.clear is called
\* on its stores
C_Clear ==
    /\ clears < MaxClears
    /\ clears' = clears + 1
    /\ txQueue' = IF CanOpenTransaction
                  THEN txQueue \o [i \in DOMAIN clearTransactions |->
                                      ClearTx(clearTransactions[i])]
                  ELSE txQueue
    /\ UNCHANGED <<tpc, tcall, tbatch, tresult, passes, writeLog, chunkEpochs, metaEpochs,
                   chunksCleared, metaCleared, failed>>
    /\ UNCHANGED ragVars
    /\ UNCHANGED outsideTx

\* whether a write of the store is still to finish
writePending(store) == \E i \in DOMAIN txQueue : store \in txQueue[i].scope

\* getAllChunks runs once the earlier writes of productChunks have finished
S_Retrieve(readOk) == ~writePending("productChunks") /\ G_Retrieve(readOk)

\* getProductMetadata runs once the earlier writes of productMeta have finished
S_Hydrate(readOk) == ~writePending("productMeta") /\ G_Hydrate(readOk)

NextStore ==
    \/ OpenDatabase
    \/ \E batch \in StoreBatches : T_Start(batch)
    \/ T_Store
    \/ \E ok \in BOOLEAN : T_Complete(ok)
    \/ C_Clear
    \/ \E q \in QueryEmbeddings : G_Start(q)
    \/ \E readOk \in BOOLEAN : S_Retrieve(readOk)
    \/ \E readOk \in BOOLEAN : S_Hydrate(readOk)
    \/ Q_Return

SpecStore == InitStore /\ [][NextStore]_vars

(***************************************************************************)
(* The content script: detectProducts and its capture/index pass, the      *)
(* events that call it (settings message, prompt update, toggle click,     *)
(* scroll) and the fallback to vector search.  Each action is the part of  *)
(* a handler that runs without yielding: from an event or the end of an    *)
(* awaited operation to the next operation awaited.                        *)
(* Specification SpecCapture.                                              *)
(***************************************************************************)
\* The number of scroll-triggered detections of a run
MaxScrolls == 2

\* The number of hideToolbar calls whose timers are still to fire
MaxTimers == 2

\* the first free place for a detectProducts call
freeCall == CHOOSE i \in Calls : dpc[i] = "free" /\ \A j \in Calls : dpc[j] = "free" => i <= j

hasFree == \E i \in Calls : dpc[i] = "free"

\* Variant: isCapturing is not looked at
passGuardNever(capturing) == FALSE

\* captureAndIndexProductsForRAG: if (this.isCapturing) return
passGuard(capturing) == capturing

\* detectProducts(), prompt and enabled state already looked at, up to the
\* first operation it waits for
callDetectProducts(i) ==
    IF captureCompleted
    THEN /\ dpc' = [dpc EXCEPT ![i] = "generate"]
         /\ UNCHANGED <<isCapturing, isScrolling>>
    ELSE IF passGuard(isCapturing)
    THEN /\ dpc' = [dpc EXCEPT ![i] = "skipped"]
         /\ UNCHANGED <<isCapturing, isScrolling>>
    ELSE /\ isCapturing' = TRUE
         /\ IF isScrolling
            THEN /\ dpc' = [dpc EXCEPT ![i] = "refused"]
                 /\ UNCHANGED isScrolling
            ELSE /\ dpc' = [dpc EXCEPT ![i] = "capturing"]
                 /\ isScrolling' = TRUE

\* detectProducts() as an event handler calls it
detectIf(wanted) ==
    IF wanted
    THEN hasFree /\ callDetectProducts(freeCall)
    ELSE UNCHANGED <<dpc, isCapturing, isScrolling>>

\* fallbackToVectorSearch(), entered with isCapturing and isScrolling as
\* given, up to the first operation it waits for
enterFallback(i, capturing, scrolling) ==
    IF capturing
    THEN /\ dpc' = [dpc EXCEPT ![i] = "search"]
         /\ isCapturing' = capturing
         /\ isScrolling' = scrolling
    ELSE /\ isCapturing' = TRUE
         /\ IF scrolling
            THEN /\ dpc' = [dpc EXCEPT ![i] = "search"]
                 /\ isScrolling' = scrolling
            ELSE /\ dpc' = [dpc EXCEPT ![i] = "fallbackCapturing"]
                 /\ isScrolling' = TRUE

InitCapture ==
    /\ RagInit /\ ScoreOff /\ ReindexOff /\ TxOff /\ ChunkOff /\ GroqOff /\ SettingsOff
    /\ isEnabled \in BOOLEAN
    /\ hasPrompt \in BOOLEAN
    /\ isCapturing = FALSE
    /\ captureCompleted = FALSE
    /\ isScrolling = FALSE
    /\ dpc = [i \in Calls |-> "free"]
    /\ scrolls = 0
    /\ highlighted = FALSE
    /\ toolbarHidden = ~isEnabled
    /\ edgeVisible = FALSE
    /\ hideTimers = 0
    /\ edgeTimers = (IF isEnabled THEN 0 ELSE 1)

\* clearHighlights()
clearHighlights == highlighted' = FALSE

\* highlightRAGMatches(matches) and the highlights of verifyTopMatchesWithLLM:
\* found tells whether one element gets a highlight
addHighlights(found) == highlighted' = (highlighted \/ found)

\* showToolbar(): this.isEnabled = true is the caller's isEnabled'
showToolbar ==
    /\ toolbarHidden' = FALSE
    /\ edgeVisible' = FALSE
    /\ UNCHANGED <<hideTimers, edgeTimers>>

\* hideToolbar(): clearHighlights, isCapturing = false and the two timers
hideToolbar ==
    /\ edgeTimers < MaxTimers
    /\ clearHighlights
    /\ isCapturing' = FALSE
    /\ hideTimers' = hideTimers + 1
    /\ edgeTimers' = edgeTimers + 1
    /\ UNCHANGED <<toolbarHidden, edgeVisible>>

\* the updateSettings message
UpdateSettings(prompt, enabled) ==
    /\ hasPrompt' = prompt
    /\ isEnabled' = enabled
    /\ clearHighlights
    /\ detectIf(enabled /\ prompt)
    /\ UNCHANGED <<captureCompleted, scrolls>>
    /\ UNCHANGED toolbarVars
    /\ UNCHANGED outsideCapture

\* updatePrompt(newPrompt)
UpdatePrompt(prompt) ==
    /\ hasPrompt' = prompt
    /\ clearHighlights
    /\ detectIf(isEnabled /\ prompt)
    /\ UNCHANGED <<isEnabled, captureCompleted, scrolls>>
    /\ UNCHANGED toolbarVars
    /\ UNCHANGED outsideCapture

\* handleToggle(): a click on the toggle button, which is on the toolbar
HandleToggle ==
    /\ ~toolbarHidden
    /\ isEnabled' = ~isEnabled
    /\ IF ~isEnabled
       THEN /\ showToolbar
            /\ detectIf(hasPrompt)
            /\ UNCHANGED highlighted
       ELSE /\ hideToolbar
            /\ UNCHANGED <<dpc, isScrolling>>
    /\ UNCHANGED <<hasPrompt, captureCompleted, scrolls>>
    /\ UNCHANGED outsideCapture

\* the scroll listener's timer: detectNewProducts, which captures nothing,
\* up to its generateWithRAG
Scroll ==
    /\ isEnabled /\ hasPrompt
    /\ scrolls < MaxScrolls
    /\ hasFree
    /\ scrolls' = scrolls + 1
    /\ dpc' = [dpc EXCEPT ![freeCall] = "newProducts"]
    /\ UNCHANGED <<isEnabled, hasPrompt, isCapturing, captureCompleted, isScrolling,
                   highlighted>>
    /\ UNCHANGED toolbarVars
    /\ UNCHANGED outsideCapture

\* generateWithRAG of detectNewProducts ends: highlightRAGMatches, or (it
\* threw) nothing
N_Generated(i, found) ==
    /\ dpc[i] = "newProducts"
    /\ dpc' = [dpc EXCEPT ![i] = "free"]
    /\ addHighlights(found)
    /\ UNCHANGED <<isEnabled, hasPrompt, isCapturing, captureCompleted, isScrolling,
                   scrolls>>
    /\ UNCHANGED toolbarVars
    /\ UNCHANGED outsideCapture

\* a click on the edge tab, which shows: showToolbar(true)
EdgeTabClick ==
    /\ edgeVisible
    /\ isEnabled' = TRUE
    /\ showToolbar
    /\ UNCHANGED <<hasPrompt, isCapturing, captureCompleted, isScrolling, dpc, scrolls,
                   highlighted>>
    /\ UNCHANGED outsideCapture

\* a 100 ms timer of hideToolbar fires
HideTimerFires ==
    /\ hideTimers > 0
    /\ hideTimers' = hideTimers - 1
    /\ toolbarHidden' = TRUE
    /\ UNCHANGED <<edgeVisible, edgeTimers>>
    /\ UNCHANGED <<isEnabled, hasPrompt, isCapturing, captureCompleted, isScrolling, dpc,
                   scrolls, highlighted>>
    /\ UNCHANGED outsideCapture

\* a 500 ms timer fires, of the construction or of a hideToolbar whose
\* 100 ms timer has fired before
EdgeTimerFires ==
    /\ edgeTimers > hideTimers
    /\ edgeTimers' = edgeTimers - 1
    /\ edgeVisible' = TRUE
    /\ UNCHANGED <<toolbarHidden, hideTimers>>
    /\ UNCHANGED <<isEnabled, hasPrompt, isCapturing, captureCompleted, isScrolling, dpc,
                   scrolls, highlighted>>
    /\ UNCHANGED outsideCapture

\* captureAllProducts ends: its finally, then processProductsForRAG is
\* called, or (it threw) the finally of the pass and the fallback
D_Captured(i, ok) ==
    /\ dpc[i] = "capturing"
    /\ IF ok
       THEN /\ dpc' = [dpc EXCEPT ![i] = "indexing"]
            /\ isScrolling' = FALSE
            /\ UNCHANGED isCapturing
       ELSE enterFallback(i, FALSE, FALSE)
    /\ UNCHANGED <<isEnabled, hasPrompt, captureCompleted, scrolls>>
    /\ UNCHANGED <<highlighted, toolbarVars>>
    /\ UNCHANGED outsideCapture

\* captureAllProducts returned undefined: processProductsForRAG(undefined)
\* throws, the finally of the pass, the fallback
D_Refused(i) ==
    /\ dpc[i] = "refused"
    /\ enterFallback(i, FALSE, isScrolling)
    /\ UNCHANGED <<isEnabled, hasPrompt, captureCompleted, scrolls>>
    /\ UNCHANGED <<highlighted, toolbarVars>>
    /\ UNCHANGED outsideCapture

\* processProductsForRAG ends: the finally of the pass, then
\* captureCompleted = true and generateWithRAG, or (it threw) the fallback
D_Indexed(i, ok) ==
    /\ dpc[i] = "indexing"
    /\ IF ok
       THEN /\ dpc' = [dpc EXCEPT ![i] = "generate"]
            /\ isCapturing' = FALSE
            /\ captureCompleted' = TRUE
            /\ UNCHANGED isScrolling
       ELSE /\ enterFallback(i, FALSE, isScrolling)
            /\ UNCHANGED captureCompleted
    /\ UNCHANGED <<isEnabled, hasPrompt, scrolls>>
    /\ UNCHANGED <<highlighted, toolbarVars>>
    /\ UNCHANGED outsideCapture

\* the pass was refused by its guard: captureCompleted = true, generateWithRAG
D_Skipped(i) ==
    /\ dpc[i] = "skipped"
    /\ dpc' = [dpc EXCEPT ![i] = "generate"]
    /\ captureCompleted' = TRUE
    /\ UNCHANGED <<isEnabled, hasPrompt, isCapturing, isScrolling, scrolls>>
    /\ UNCHANGED <<highlighted, toolbarVars>>
    /\ UNCHANGED outsideCapture

\* phases 2 to 4 end: detectProducts returns, or (one threw) the fallback
D_Generated(i, ok, found) ==
    /\ dpc[i] = "generate"
    /\ IF ok
       THEN /\ dpc' = [dpc EXCEPT ![i] = "free"]
            /\ addHighlights(found)
            /\ UNCHANGED <<isCapturing, isScrolling>>
       ELSE /\ enterFallback(i, isCapturing, isScrolling)
            /\ UNCHANGED highlighted
    /\ UNCHANGED toolbarVars
    /\ UNCHANGED <<isEnabled, hasPrompt, captureCompleted, scrolls>>
    /\ UNCHANGED outsideCapture

\* captureAllProducts of captureAndIndexProducts ends; isCapturing stays set
F_Captured(i) ==
    /\ dpc[i] = "fallbackCapturing"
    /\ dpc' = [dpc EXCEPT ![i] = "search"]
    /\ isScrolling' = FALSE
    /\ UNCHANGED <<isEnabled, hasPrompt, isCapturing, captureCompleted, scrolls>>
    /\ UNCHANGED <<highlighted, toolbarVars>>
    /\ UNCHANGED outsideCapture

\* the search and verification of the fallback end: detectProducts returns
F_Searched(i, found) ==
    /\ dpc[i] = "search"
    /\ dpc' = [dpc EXCEPT ![i] = "free"]
    /\ addHighlights(found)
    /\ UNCHANGED toolbarVars
    /\ UNCHANGED <<isEnabled, hasPrompt, isCapturing, captureCompleted, isScrolling,
                   scrolls>>
    /\ UNCHANGED outsideCapture

NextCapture ==
    \/ \E prompt \in BOOLEAN : \E enabled \in BOOLEAN : UpdateSettings(prompt, enabled)
    \/ \E prompt \in BOOLEAN : UpdatePrompt(prompt)
    \/ HandleToggle
    \/ EdgeTabClick
    \/ HideTimerFires
    \/ EdgeTimerFires
    \/ Scroll
    \/ \E i \in Calls : \E found \in BOOLEAN : N_Generated(i, found)
    \/ \E i \in Calls : \E ok \in BOOLEAN : D_Captured(i, ok)
    \/ \E i \in Calls : D_Refused(i)
    \/ \E i \in Calls : \E ok \in BOOLEAN : D_Indexed(i, ok)
    \/ \E i \in Calls : D_Skipped(i)
    \/ \E i \in Calls : \E ok \in BOOLEAN : \E found \in BOOLEAN : D_Generated(i, ok, found)
    \/ \E i \in Calls : F_Captured(i)
    \/ \E i \in Calls : \E found \in BOOLEAN : F_Searched(i, found)

SpecCapture == InitCapture /\ [][NextCapture]_vars

(***************************************************************************)
(* The toolbar under clicks alone: the toggle button, the edge tab, the    *)
(* timers of hideToolbar and the detectProducts calls the clicks start.    *)
(* Specification SpecToolbar.                                              *)
(***************************************************************************)
NextToolbar ==
    \/ HandleToggle
    \/ EdgeTabClick
    \/ HideTimerFires
    \/ EdgeTimerFires
    \/ \E i \in Calls : \E ok \in BOOLEAN : D_Captured(i, ok)
    \/ \E i \in Calls : D_Refused(i)
    \/ \E i \in Calls : \E ok \in BOOLEAN : D_Indexed(i, ok)
    \/ \E i \in Calls : \E ok \in BOOLEAN : \E found \in BOOLEAN : D_Generated(i, ok, found)
    \/ \E i \in Calls : F_Captured(i)
    \/ \E i \in Calls : \E found \in BOOLEAN : F_Searched(i, found)

SpecToolbar == InitCapture /\ [][NextToolbar]_vars

(***************************************************************************)
(* processProductsForRAG up to its store calls: createProductContext,      *)
(* chunkProductInfo and splitIntoChunks on the text of the products.       *)
(* Specification SpecChunk.                                                *)
(***************************************************************************)
\* this.chunkSize
chunkSize == 200

\* Math.floor(chunkSize * 0.2)
overlapOf(size) == (size * 2) \div 10

\* the word lists of extractProductType, extractColors, extractMaterials and
\* extractStyle
productTypes ==
    <<<<"s", "n", "e", "a", "k", "e", "r">>, <<"s", "h", "o", "e">>,
      <<"b", "o", "o", "t">>, <<"s", "a", "n", "d", "a", "l">>, <<"h", "e", "e", "l">>,
      <<"f", "l", "a", "t">>, <<"t", "r", "a", "i", "n", "e", "r">>,
      <<"r", "u", "n", "n", "e", "r">>, <<"d", "r", "e", "s", "s">>,
      <<"s", "h", "i", "r", "t">>, <<"p", "a", "n", "t">>,
      <<"j", "a", "c", "k", "e", "t">>, <<"c", "o", "a", "t">>>>

contextColorNames ==
    <<<<"w", "h", "i", "t", "e">>, <<"b", "l", "a", "c", "k">>, <<"r", "e", "d">>,
      <<"b", "l", "u", "e">>, <<"g", "r", "e", "e", "n">>,
      <<"y", "e", "l", "l", "o", "w">>, <<"p", "i", "n", "k">>,
      <<"p", "u", "r", "p", "l", "e">>, <<"o", "r", "a", "n", "g", "e">>,
      <<"b", "r", "o", "w", "n">>, <<"g", "r", "e", "y">>, <<"g", "r", "a", "y">>,
      <<"b", "e", "i", "g", "e">>, <<"n", "a", "v", "y">>>>

materialNames ==
    <<<<"l", "e", "a", "t", "h", "e", "r">>, <<"c", "o", "t", "t", "o", "n">>,
      <<"d", "e", "n", "i", "m">>, <<"w", "o", "o", "l">>, <<"s", "i", "l", "k">>,
      <<"c", "a", "n", "v", "a", "s">>, <<"s", "u", "e", "d", "e">>,
      <<"m", "e", "s", "h">>>>

styleNames ==
    <<<<"c", "a", "s", "u", "a", "l">>, <<"f", "o", "r", "m", "a", "l">>,
      <<"s", "p", "o", "r", "t">>, <<"a", "t", "h", "l", "e", "t", "i", "c">>,
      <<"v", "i", "n", "t", "a", "g", "e">>, <<"c", "l", "a", "s", "s", "i", "c">>,
      <<"m", "o", "d", "e", "r", "n">>>>

\* extractProductType(text): the first type the text names
contextProductType(text) ==
    IF \E k \in DOMAIN productTypes : includes(toLowerCase(text), productTypes[k])
    THEN productTypes[CHOOSE k \in DOMAIN productTypes :
                        /\ includes(toLowerCase(text), productTypes[k])
                        /\ \A j \in 1..(k - 1) :
                              ~includes(toLowerCase(text), productTypes[j])]
    ELSE <<"u", "n", "k", "n", "o", "w", "n">>

\* extractColors, extractMaterials, extractStyle: names.filter(includes)
namedIn(text, names) == SelectSeq(names, LAMBDA name : includes(toLowerCase(text), name))

\* extractGender(text)
contextGender(text) ==
    IF includes(toLowerCase(text), <<"w", "o", "m", "e", "n">>)
       \/ includes(toLowerCase(text), <<"f", "e", "m", "a", "l", "e">>)
    THEN <<"w", "o", "m", "e", "n">>
    ELSE IF includes(toLowerCase(text), <<"m", "e", "n">>)
            \/ includes(toLowerCase(text), <<"m", "a", "l", "e">>)
         THEN <<"m", "e", "n">>
         ELSE <<"u", "n", "i", "s", "e", "x">>

\* text.toLowerCase() on a text that is not there throws a TypeError
contextThrows(product) == ~product.hasText

\* createProductContext(product), for a product with a text
createProductContext(product) ==
    [title |-> product.title,
     brand |-> product.brand,
     price |-> product.price,
     productType |-> contextProductType(product.text),
     colors |-> namedIn(product.text, contextColorNames),
     materials |-> namedIn(product.text, materialNames),
     style |-> namedIn(product.text, styleNames),
     gender |-> contextGender(product.text),
     fullText |-> product.text]

\* Array.prototype.join
RECURSIVE join(_, _)
join(parts, sep) ==
    IF parts = <<>> THEN <<>>
    ELSE IF Len(parts) = 1 THEN parts[1]
    ELSE parts[1] \o sep \o join(Tail(parts), sep)

\* the windows of splitIntoChunks: text.substring(i, i + chunkSize) for
\* i = 0, chunkSize - overlap, ... below text.length
windowCount(text, size) ==
    (Len(text) + (size - overlapOf(size)) - 1) \div (size - overlapOf(size))

windowAt(text, k, size) ==
    SubSeq(text, (k - 1) * (size - overlapOf(size)) + 1,
           Min((k - 1) * (size - overlapOf(size)) + size, Len(text)))

\* Variant: the windows as they are cut, untrimmed
splitUntrimmed(text, size) ==
    [k \in 1..windowCount(text, size) |-> windowAt(text, k, size)]

\* splitIntoChunks(text, chunkSize): the windows trimmed, the empty ones
\* left out
splitIntoChunks(text, size) ==
    SelectSeq([k \in 1..windowCount(text, size) |-> trim(windowAt(text, k, size))],
              LAMBDA chunk : chunk # <<>>)

\* chunkProductInfo, 1: the title and brand chunk
titleBrandChunk(context, productId) ==
    IF context.title # <<>> \/ context.brand # <<>>
    THEN <<[productId |-> productId, type |-> "title_brand",
            content |-> trim(context.brand \o <<" ">> \o context.title)]>>
    ELSE <<>>

\* chunkProductInfo, 2: the attributes chunk
labelled(label, value, present) == IF present THEN <<label \o value>> ELSE <<>>

attributesOf(context) ==
    labelled(<<"C", "o", "l", "o", "r", "s", ":", " ">>, join(context.colors, <<",", " ">>),
             context.colors # <<>>)
    \o labelled(<<"M", "a", "t", "e", "r", "i", "a", "l", "s", ":", " ">>,
                join(context.materials, <<",", " ">>), context.materials # <<>>)
    \o labelled(<<"S", "t", "y", "l", "e", ":", " ">>, join(context.style, <<",", " ">>),
                context.style # <<>>)
    \o labelled(<<"T", "y", "p", "e", ":", " ">>, context.productType,
                context.productType # <<"u", "n", "k", "n", "o", "w", "n">>)
    \o labelled(<<"G", "e", "n", "d", "e", "r", ":", " ">>, context.gender,
                context.gender # <<"u", "n", "i", "s", "e", "x">>)
    \o labelled(<<"P", "r", "i", "c", "e", ":", " ">>, context.price, context.price # <<>>)

attributesChunk(context, productId) ==
    IF attributesOf(context) # <<>>
    THEN <<[productId |-> productId, type |-> "attributes",
            content |-> join(attributesOf(context), <<".", " ">>)]>>
    ELSE <<>>

\* chunkProductInfo, 3: the description chunks
descriptionOf(productId, contents) ==
    [k \in DOMAIN contents |->
        [productId |-> productId, type |-> "description", content |-> contents[k]]]

descriptionChunks(context, productId) ==
    IF Len(context.fullText) > chunkSize
    THEN descriptionOf(productId, splitIntoChunks(context.fullText, chunkSize))
    ELSE IF context.fullText # <<>>
         THEN descriptionOf(productId, <<context.fullText>>)
         ELSE <<>>

\* chunkProductInfo(context, productId), the embeddings left out
chunksOfContext(context, productId) ==
    titleBrandChunk(context, productId)
    \o attributesChunk(context, productId)
    \o descriptionChunks(context, productId)

\* the loop of processProductsForRAG over products that have a text
RECURSIVE chunksOfProducts(_)
chunksOfProducts(products) ==
    IF products = <<>> THEN <<>>
    ELSE chunksOfContext(createProductContext(Head(products)), Head(products).id)
         \o chunksOfProducts(Tail(products))

\* what processProductsForRAG hands to storeChunks and storeMetadata, or the
\* rejection when a product of the batch makes createProductContext throw
processedBatch(products) ==
    IF \E k \in DOMAIN products : contextThrows(products[k])
    THEN [status |-> "rejected", chunks |-> <<>>, metadata |-> <<>>]
    ELSE [status |-> "resolved", chunks |-> chunksOfProducts(products),
          metadata |-> [k \in DOMAIN products |-> products[k].id]]

\* The texts of the products: letters that spell none of the words above, a
\* run of blanks from position from to position to; as element.textContent
\* trimmed gives them, neither the first nor the last character is a blank
TextLetters == <<"x", "z", "q", "j", "k", "v", "w">>

TextOf(len, from, to) ==
    [p \in 1..len |-> IF from <= p /\ p <= to THEN " "
                      ELSE TextLetters[(p % Len(TextLetters)) + 1]]

TextLengths == {0, 1, 150, 200, 201, 240, 321, 330, 361, 400}

BlankRuns == {<<0, 0>>, <<100, 110>>, <<161, 165>>, <<190, 205>>, <<158, 162>>,
              <<199, 201>>}

Texts ==
    {TextOf(len, run[1], run[2]) :
        len \in TextLengths, run \in {r \in BlankRuns : r[2] < 150}}
    \cup {TextOf(len, run[1], run[2]) :
            len \in {n \in TextLengths : n > 205}, run \in BlankRuns}
    \cup {TextOf(400, 150, 370)}

ProductWith(id, title, price, text, hasText) ==
    [id |-> id, title |-> title, brand |-> <<>>, price |-> price, text |-> text,
     hasText |-> hasText]

\* products with a text, with or without a title and a price
TextProducts ==
    {ProductWith(7, title, price, text, TRUE) :
        title \in {<<>>, <<"Z", "x">>}, price \in {<<>>, <<"9">>}, text \in Texts}

\* a product with nothing but an id: no title, no brand, no price, its text
\* missing (hasText FALSE) or empty
BareProducts == {ProductWith(8, <<>>, <<>>, <<>>, hasText) : hasText \in BOOLEAN}

OtherProduct == ProductWith(9, <<"Z", "x">>, <<>>, TextOf(150, 0, 0), TRUE)

ChunkBatches ==
    {<<p>> : p \in TextProducts}
    \cup {<<p, OtherProduct>> : p \in BareProducts}
    \cup {<<OtherProduct, p>> : p \in BareProducts}

InitChunk ==
    /\ RagInit /\ ScoreOff /\ ReindexOff /\ TxOff /\ CaptureOff /\ GroqOff /\ SettingsOff
    /\ cpc = "start"
    /\ cbatch \in ChunkBatches
    /\ cresult = NoChunks

\* processProductsForRAG(products), up to the store calls
ProcessBatch ==
    /\ cpc = "start"
    /\ cpc' = "processed"
    /\ cresult' = processedBatch(cbatch)
    /\ UNCHANGED cbatch
    /\ UNCHANGED outsideChunk

NextChunk == ProcessBatch

SpecChunk == InitChunk /\ [][NextChunk]_vars

(***************************************************************************)
(* GroqProductEnhancer.evaluateProduct: the batch queue, its timer,        *)
(* processBatchQueue and parseBatchScores.  Scores are in hundredths.      *)
(* Specifications SpecGroq and, with the timer firing and every LLM call   *)
(* settling, SpecGroqFair.                                                 *)
(***************************************************************************)
\* The number of evaluateProduct calls of a run
MaxRequests == 5

\* this.batchSize
batchSize == 5

\* the score of a failed batch and of a missing or unreadable score: 0.1
lowDefault == 10

\* the cache keys of the calls: hashString(productText + userQuery)
CacheKeys == {1, 2}

\* item.query of a request: the two keys are those of one product text with
\* two user queries, 1 and 2
queryOf(key) == key

\* const userQuery = batch[0].query: the query of the prompt of a batch
promptQuery(batch) == queryOf(promises[batch[1]].key)

\* What the LLM answers: a JSON array of numbers, a text with numbers in
\* it, or something with neither; the numbers in hundredths
Responses ==
    {[kind |-> "other", values |-> <<>>],
     [kind |-> "json", values |-> <<90, 0, 250>>],
     [kind |-> "text", values |-> <<250, 0>>]}

\* Variant: the score as it was read
scoreAsRead(score) == score

\* Math.min(Math.max(s, 0), 1)
clampScore(score) == Min(Max(score, 0), 100)

\* Array(expectedCount).fill(0.1)
defaults(expectedCount) == [i \in 1..expectedCount |-> lowDefault]

\* the scores of the JSON array: filled up with 0.1, cut to expectedCount,
\* parseFloat(s) || 0.1 clamped
fromJson(values, expectedCount) ==
    [i \in 1..expectedCount |->
        IF i > Len(values) THEN clampScore(lowDefault)
        ELSE clampScore(IF values[i] = 0 THEN lowDefault ELSE values[i])]

\* the numbers found in a text: the first expectedCount, clamped
fromText(values, expectedCount) ==
    IF Len(values) >= expectedCount
    THEN [i \in 1..expectedCount |-> clampScore(values[i])]
    ELSE defaults(expectedCount)

\* parseBatchScores(response, expectedCount)
parseBatchScores(response, expectedCount) ==
    IF response.kind = "json" THEN fromJson(response.values, expectedCount)
    ELSE IF response.kind = "text" THEN fromText(response.values, expectedCount)
    ELSE defaults(expectedCount)

Pending(key) == [status |-> "pending", score |-> 0, key |-> key]

\* a resolved promise; the key of its request is of no use any more
Resolved(score) == [status |-> "resolved", score |-> score, key |-> 0]

\* processBatchQueue(), up to its await of callGroqAPI: the queue after it
queueAfterBatch(queue) == SubSeq(queue, Min(Len(queue), batchSize) + 1, Len(queue))

\* the batches in flight after it
inFlightAfterBatch(batches, queue) ==
    IF queue = <<>> THEN batches ELSE batches \cup {Prefix(queue, batchSize)}

InitGroq ==
    /\ RagInit /\ ScoreOff /\ ReindexOff /\ TxOff /\ CaptureOff /\ ChunkOff /\ SettingsOff
    /\ groqEnabled = TRUE
    /\ batchQueue = <<>>
    /\ batchTimer = FALSE
    /\ inFlight = {}
    /\ promises = <<>>
    /\ cache = <<>>

\* evaluateProduct(productText, userQuery), key being the cache key of its
\* arguments
EvaluateProduct(key) ==
    /\ Len(promises) < MaxRequests
    /\ IF ~groqEnabled
       THEN /\ promises' = Append(promises, Resolved(0))
            /\ UNCHANGED <<batchQueue, batchTimer, inFlight>>
       ELSE IF key \in DOMAIN cache
       THEN /\ promises' = Append(promises, Resolved(cache[key]))
            /\ UNCHANGED <<batchQueue, batchTimer, inFlight>>
       ELSE /\ promises' = Append(promises, Pending(key))
            /\ IF Len(batchQueue) + 1 >= batchSize
               THEN /\ batchTimer' = FALSE
                    /\ batchQueue' = queueAfterBatch(Append(batchQueue, Len(promises) + 1))
                    /\ inFlight' = inFlightAfterBatch(inFlight,
                                        Append(batchQueue, Len(promises) + 1))
               ELSE /\ batchTimer' = TRUE
                    /\ batchQueue' = Append(batchQueue, Len(promises) + 1)
                    /\ UNCHANGED inFlight
    /\ UNCHANGED <<groqEnabled, cache>>
    /\ UNCHANGED outsideGroq

\* the batch timer fires: processBatchQueue()
TimerFires ==
    /\ batchTimer
    /\ batchTimer' = FALSE
    /\ batchQueue' = queueAfterBatch(batchQueue)
    /\ inFlight' = inFlightAfterBatch(inFlight, batchQueue)
    /\ UNCHANGED <<groqEnabled, promises, cache>>
    /\ UNCHANGED outsideGroq

\* the promises with the requests of the batch resolved
resolvedWith(batch, scores) ==
    [r \in DOMAIN promises |->
        IF \E i \in DOMAIN batch : batch[i] = r
        THEN Resolved(scores[CHOOSE i \in DOMAIN batch : batch[i] = r])
        ELSE promises[r]]

\* the cache after this.cache.set(item.cacheKey, score) for item after item
cachedWith(batch, scores) ==
    [key \in DOMAIN cache \cup {promises[batch[i]].key : i \in DOMAIN batch} |->
        IF \E i \in DOMAIN batch : promises[batch[i]].key = key
        THEN scores[CHOOSE i \in DOMAIN batch :
                        /\ promises[batch[i]].key = key
                        /\ \A j \in (i + 1)..Len(batch) : promises[batch[j]].key # key]
        ELSE cache[key]]

\* callGroqAPI of a batch returns the LLM's answer: the rest of the try
\* block of processBatchQueue
LLMAnswers(batch, response) ==
    /\ batch \in inFlight
    /\ inFlight' = inFlight \ {batch}
    /\ promises' = resolvedWith(batch, parseBatchScores(response, Len(batch)))
    /\ cache' = cachedWith(batch, parseBatchScores(response, Len(batch)))
    /\ UNCHANGED <<groqEnabled, batchQueue, batchTimer>>
    /\ UNCHANGED outsideGroq

\* callGroqAPI of a batch throws: the catch block of processBatchQueue
LLMFails(batch) ==
    /\ batch \in inFlight
    /\ inFlight' = inFlight \ {batch}
    /\ promises' = resolvedWith(batch, defaults(Len(batch)))
    /\ UNCHANGED <<groqEnabled, batchQueue, batchTimer, cache>>
    /\ UNCHANGED outsideGroq

\* the call of the batch that begins with request r settles
LLMSettles(r) ==
    \E batch \in inFlight :
        /\ batch[1] = r
        /\ \/ LLMFails(batch)
           \/ \E response \in Responses : LLMAnswers(batch, response)

\* isEnabled is set: false when the connection test fails, true by the
\* settings message
SetEnabled(enabled) ==
    /\ groqEnabled # enabled
    /\ groqEnabled' = enabled
    /\ UNCHANGED <<batchQueue, batchTimer, inFlight, promises, cache>>
    /\ UNCHANGED outsideGroq

NextGroq ==
    \/ \E key \in CacheKeys : EvaluateProduct(key)
    \/ TimerFires
    \/ \E r \in 1..MaxRequests : LLMSettles(r)
    \/ \E enabled \in BOOLEAN : SetEnabled(enabled)

SpecGroq == InitGroq /\ [][NextGroq]_vars

\* a timer that is set fires, and every call of the LLM settles
SpecGroqFair ==
    /\ SpecGroq
    /\ WF_vars(TimerFires)
    /\ \A r \in 1..MaxRequests : WF_vars(LLMSettles(r))

(***************************************************************************)
(* The accuracy tests of the evaluation harness: testAlgorithmAccuracy     *)
(* calls calculateMatchScore on a product text and a prompt and compares   *)
(* the score with the expected range                                       *)
(***************************************************************************)
\* expectedScore of a test, in hundredths
ExactMatchRange == [min |-> 90, max |-> 100]

SemanticMatchRange == [min |-> 60, max |-> 80]

FalsePositiveRange == [min |-> 0, max |-> 30]

\* passed: score >= test.expectedScore.min && score <= test.expectedScore.max
passed(score, expectedScore) ==
    /\ score >= expectedScore.min * ScoreUnit
    /\ score <= expectedScore.max * ScoreUnit

AccuracyBrands == {<<"S","o","n","y">>, <<"B","o","s","e">>, <<"A","p","p","l","e">>}

ModelTokens == {<<"W","H","-","1","0","0","0","X","M","4">>, <<"Q","C","4","5">>, <<"A","7">>, <<"1","0","0","0">>}

ListingForms == 1..3

\* a listing that holds the brand and the model token verbatim: as the first
\* two words, as words further on, or with the token as the start of a
\* longer word
listingOf(brand, token, form) ==
    CASE form = 1 -> brand \o <<" ">> \o token \o <<" ","W","i","r","e","l","e","s","s"," ","N","o","i","s","e"," ","C","a","n","c","e","l","i","n","g"," ","H","e","a","d","p","h","o","n","e","s">>
      [] form = 2 -> <<"H","e","a","d","p","h","o","n","e","s"," ">> \o token \o <<" ","b","y"," ">> \o brand
      [] form = 3 -> brand \o <<" ">> \o token \o <<"B"," ","H","e","a","d","p","h","o","n","e","s">>

\* the "Exact Match Test" and the tests of its kind
ExactMatchTests ==
    {[productText |-> listingOf(brand, token, form),
      userPrompt |-> brand \o <<" ">> \o token] :
        brand \in AccuracyBrands, token \in ModelTokens, form \in ListingForms}

\* the "Semantic Match Test" and a test of its kind
SemanticMatchTests ==
    {[productText |-> <<"A","p","p","l","e"," ","i","P","h","o","n","e"," ","1","4"," ","P","r","o"," ","M","a","x"," ","2","5","6","G","B"," ","S","p","a","c","e"," ","B","l","a","c","k">>,
      userPrompt |-> <<"s","m","a","r","t","p","h","o","n","e"," ","w","i","t","h"," ","l","a","r","g","e"," ","s","t","o","r","a","g","e">>],
     [productText |-> <<"D","e","l","l"," ","X","P","S"," ","1","5"," ","N","o","t","e","b","o","o","k"," ","1","6","G","B">>,
      userPrompt |-> <<"l","a","p","t","o","p"," ","f","o","r"," ","g","a","m","i","n","g">>]}

\* the "False Positive Test"
FalsePositiveTests ==
    {[productText |-> <<"C","u","s","t","o","m","e","r"," ","R","e","v","i","e","w","s"," ","a","n","d"," ","R","a","t","i","n","g","s"," ","f","o","r"," ","E","l","e","c","t","r","o","n","i","c","s">>,
      userPrompt |-> <<"w","i","r","e","l","e","s","s"," ","h","e","a","d","p","h","o","n","e","s">>]}

AccuracyTests == ExactMatchTests \cup SemanticMatchTests \cup FalsePositiveTests

\* this.highPerformingKeywords: empty after construction, or as loaded from
\* the stored optimizations
AccuracyAllowlists == {<<>>, << <<"w","h","-","1","0","0","0","x","m","4">> >>}

InitAccuracy ==
    /\ RagInit
    /\ ReindexOff
    /\ TxOff
    /\ PageOff
    /\ \E test \in AccuracyTests :
           /\ promptGiven = test.userPrompt
           /\ textGiven = test.productText
    /\ highPerformingKeywords \in AccuracyAllowlists
    /\ analysis = NoAnalysis
    /\ finalScore = 0
    /\ spc = "ready"

NextAccuracy == CalculateMatchScore

SpecAccuracy == InitAccuracy /\ [][NextAccuracy]_vars

(***************************************************************************)
(* The popup: loadSettings and applySettings on chrome.storage.sync, and   *)
(* the defaults background.js stores. Specification SpecPopup.             *)
(***************************************************************************)
\* the whole number n, in hundredths
whole(n) == n * 100

\* the range input of the threshold: whole percentages from 0 to 100
Percentages == 0..100

\* thresholdSlider.value = x, x in hundredths: the range input keeps the
\* nearest whole number of its range, the higher one of two as near
sanitize(x) ==
    LET nearest == (x + 50) \div 100
    IN  IF nearest \in Percentages THEN nearest
        ELSE IF nearest < 0 THEN 0
        ELSE 100

\* result.threshold || 60, in hundredths
thresholdOrDefault(stored) == IF stored = 0 THEN whole(60) ELSE stored

\* parseInt(thresholdSlider.value) / 100, in hundredths
thresholdOf(value) == whole(value) \div 100

\* chrome.runtime.onInstalled: on installation and on every update
OnInstalled ==
    /\ storedThreshold' = 60
    /\ applied' = FALSE
    /\ UNCHANGED <<popupOpen, sliderValue, thresholdLabel>>
    /\ UNCHANGED outsidePopup

\* DOMContentLoaded of the popup: loadSettings
LoadSettings ==
    /\ ~popupOpen
    /\ popupOpen' = TRUE
    /\ sliderValue' = sanitize(thresholdOrDefault(storedThreshold))
    /\ thresholdLabel' = sliderValue'
    /\ UNCHANGED <<storedThreshold, applied>>
    /\ UNCHANGED outsidePopup

\* the 'input' listener of the slider, the user choosing value
SliderInput(value) ==
    /\ popupOpen
    /\ sliderValue' = value
    /\ thresholdLabel' = value
    /\ UNCHANGED <<storedThreshold, applied, popupOpen>>
    /\ UNCHANGED outsidePopup

\* applySettings, with what the other fields of the popup hold
ApplySettings(userPromptGiven, enabledChecked, groqChecked, groqKeyGiven) ==
    /\ popupOpen
    /\ IF (~userPromptGiven /\ enabledChecked) \/ (groqChecked /\ ~groqKeyGiven)
       THEN UNCHANGED <<storedThreshold, applied>>
       ELSE /\ storedThreshold' = thresholdOf(sliderValue)
            /\ applied' = TRUE
    /\ UNCHANGED <<popupOpen, sliderValue, thresholdLabel>>
    /\ UNCHANGED outsidePopup

\* the popup closes
ClosePopup ==
    /\ popupOpen
    /\ popupOpen' = FALSE
    /\ UNCHANGED <<storedThreshold, applied, sliderValue, thresholdLabel>>
    /\ UNCHANGED outsidePopup

InitPopup ==
    /\ RagInit /\ ScoreOff /\ ReindexOff /\ TxOff /\ CaptureOff /\ ChunkOff /\ GroqOff
    /\ PopupOff /\ AdjustOff

NextPopup ==
    \/ OnInstalled
    \/ LoadSettings
    \/ \E value \in Percentages : SliderInput(value)
    \/ \E userPromptGiven, enabledChecked, groqChecked, groqKeyGiven \in BOOLEAN :
          ApplySettings(userPromptGiven, enabledChecked, groqChecked, groqKeyGiven)
    \/ ClosePopup

SpecPopup == InitPopup /\ [][NextPopup]_vars

(***************************************************************************)
(* getAdjustedThreshold on the thresholds from 0 to 1 and the sample       *)
(* prompts. Specification SpecAdjust.                                      *)
(***************************************************************************)
\* this.userPrompt.split(' ').length
splitSpaceLength(s) == Len(SelectSeq(s, LAMBDA c : c = " ")) + 1

isSentence(prompt) == splitSpaceLength(prompt) > 2

\* the words of the pattern of hasSpecificRequirements
RequirementWords ==
    << <<"w","h","i","t","e">>, <<"b","l","a","c","k">>, <<"r","e","d">>,
       <<"b","l","u","e">>, <<"g","r","e","e","n">>, <<"n","i","k","e">>,
       <<"a","d","i","d","a","s">>, <<"u","n","d","e","r">>, <<"b","e","l","o","w">>,
       <<"a","b","o","v","e">>, <<"$">>, <<"€">>, <<"£">> >>

\* /\b(white|...|\$|€|£)\b/i.test(prompt)
hasSpecificRequirements(prompt) ==
    \E k \in DOMAIN RequirementWords : testWord(prompt, RequirementWords[k])

\* Math.max and Math.min
mathMax(a, b) == IF a >= b THEN a ELSE b
mathMin(a, b) == IF a <= b THEN a ELSE b

\* getAdjustedThreshold, the thresholds in hundredths
getAdjustedThreshold(baseThreshold, prompt) ==
    IF isSentence(prompt) /\ hasSpecificRequirements(prompt)
    THEN mathMax(baseThreshold - 10, 20)
    ELSE IF ~isSentence(prompt)
    THEN mathMin(baseThreshold + 10, 80)
    ELSE baseThreshold

\* the thresholds from 0 to 1
Thresholds == 0..100

\* prompts of one word and more, with and without the words of the pattern
AdjustPrompts ==
    Prompts \cup
    { <<"h","e","a","d","p","h","o","n","e","s">>,
      <<"R","e","d"," "," ","s","h","o","e","s">>,
      <<"l","a","p","t","o","p"," ","f","o","r"," ","g","a","m","i","n","g">>,
      <<"t","v"," ","5","$","b">> }

GetAdjustedThreshold ==
    /\ adjustedThreshold = NotComputed
    /\ adjustedThreshold' = getAdjustedThreshold(threshold, thresholdPrompt)
    /\ UNCHANGED <<threshold, thresholdPrompt>>
    /\ UNCHANGED outsideAdjust

InitAdjust ==
    /\ RagInit /\ ScoreOff /\ ReindexOff /\ TxOff /\ CaptureOff /\ ChunkOff /\ GroqOff
    /\ PopupOff
    /\ threshold \in Thresholds
    /\ thresholdPrompt \in AdjustPrompts
    /\ adjustedThreshold = NotComputed

NextAdjust == GetAdjustedThreshold

SpecAdjust == InitAdjust /\ [][NextAdjust]_vars

(***************************************************************************)
(* Properties of the RAG system (specification Spec)                       *)
(***************************************************************************)
\* a generateWithRAG call has returned
generateReturned == qpc = "done" /\ result.op = "generateWithRAG"

\* C1: generateWithRAG never rejects or throws to its caller: whatever the
\* query and the stores (database not opened, failing chunk read, failing
\* metadata lookup), it resolves with matches, a non-empty reasoning and a
\* number retrievedChunks; after an exception, or when no chunk was
\* retrieved, matches is empty and retrievedChunks is 0.
C1_GenerateWithRAGResolves ==
    generateReturned =>
        /\ result.status = "resolved"
        /\ result.reasoning # ""
        /\ DOMAIN result.matches = 1..Len(result.matches)
        /\ result.retrievedChunks \in Nat
        /\ (inCatch \/ relevantChunks = <<>>) =>
                (result.matches = <<>> /\ result.retrievedChunks = 0)
        /\ (~inCatch /\ relevantChunks # <<>>) =>
                result.retrievedChunks = Len(relevantChunks)

\* generateWithRAG returned after a metadata lookup failed, chunks being retrieved
C1_CaughtAfterRetrieval ==
    /\ generateReturned
    /\ inCatch
    /\ relevantChunks # <<>>
    /\ result.matches = <<>>

\* retrieveRelevantChunks has returned to the query in progress
retrievalReturned == qpc \in {"gHydrate", "lQuery", "lExtract", "lFallback"}

\* the similarity of a stored chunk to the query
similarityOf(chunk) == cosineSimilarity(query, chunk.embedding)

sameChunk(a, b) == a.productId = b.productId /\ a.embedding = b.embedding

\* how many copies of a chunk were stored, and how many were returned
storedCopies(chunk) == Cardinality({i \in DOMAIN chunks : sameChunk(chunks[i], chunk)})

returnedCopies(chunk) ==
    Cardinality({i \in DOMAIN relevantChunks : sameChunk(relevantChunks[i], chunk)})

leftOut(chunk) == returnedCopies(chunk) < storedCopies(chunk)

\* maxChunks chunks of at least this chunk's similarity are returned
outranked(chunk) ==
    /\ Len(relevantChunks) = maxChunks
    /\ \A i \in DOMAIN relevantChunks : relevantChunks[i].similarity >= similarityOf(chunk)

\* the returned chunks are stored chunks with their similarity, in
\* non-increasing order of similarity, at most maxChunks of them
returnedInOrder ==
    /\ \A i \in DOMAIN relevantChunks :
            /\ returnedCopies(relevantChunks[i]) <= storedCopies(relevantChunks[i])
            /\ relevantChunks[i].similarity = similarityOf(relevantChunks[i])
    /\ \A i, j \in DOMAIN relevantChunks :
            i < j => relevantChunks[i].similarity >= relevantChunks[j].similarity
    /\ Len(relevantChunks) <= maxChunks

\* C2 (as the code has it): retrieveRelevantChunks returns stored chunks in
\* non-increasing order of similarity, at most maxChunks of them, and a
\* stored chunk is left out only if its similarity does not exceed the
\* similarity threshold or maxChunks chunks of at least its similarity are
\* returned.
C2_RetrievalKeepsAboveThreshold ==
    retrievalReturned =>
        /\ returnedInOrder
        /\ \A i \in DOMAIN chunks :
                leftOut(chunks[i]) =>
                    \/ similarityOf(chunks[i]) <= similarityThreshold
                    \/ outranked(chunks[i])

\* C2 (as stated): ... a stored chunk is left out only if its similarity is
\* below the similarity threshold or maxChunks chunks of at least its
\* similarity are returned.
C2_RetrievalKeepsFromThreshold ==
    retrievalReturned =>
        /\ returnedInOrder
        /\ \A i \in DOMAIN chunks :
                leftOut(chunks[i]) =>
                    \/ similarityOf(chunks[i]) < similarityThreshold
                    \/ outranked(chunks[i])

\* a chunk whose similarity is the threshold is left out though there is room
C2_ThresholdChunkLeftOut ==
    /\ retrievalReturned
    /\ relevantChunks # <<>>
    /\ Len(relevantChunks) < maxChunks
    /\ \E i \in DOMAIN chunks :
            leftOut(chunks[i]) /\ similarityOf(chunks[i]) = similarityThreshold

\* the confirmation path has returned after the LLM call failed
fallbackReturned ==
    qpc = "done" /\ llmFailed /\ result.op = "extractProductMatches"

\* the top three retrieval results
topThree == SubSeq(relevantChunks, 1, Min(3, Len(relevantChunks)))

hasMetadata(store, productId) == \E j \in DOMAIN store : store[j].productId = productId

\* every match is made of one of the top three retrieved chunks and of the
\* stored metadata of its product, with confidence 0.8 * similarity
takenFromTopThree ==
    \A i \in DOMAIN result.matches :
        \E k \in DOMAIN topThree :
            /\ result.matches[i].productId = topThree[k].productId
            /\ result.matches[i].retrievalScore = topThree[k].similarity
            /\ result.matches[i].confidence = (8 * topThree[k].similarity) \div 10
            /\ hasMetadata(productMeta, topThree[k].productId)

C9_DeduplicatedBestFirst ==
    generateReturned =>
        LET out == result.matches
        IN  /\ \A i, j \in DOMAIN out : i # j => dedupKey(out[i]) # dedupKey(out[j])
            /\ \A i \in DOMAIN out :
                    /\ \E c \in DOMAIN matches : matches[c] = out[i]
                    /\ \A c \in DOMAIN matches :
                            dedupKey(matches[c]) = dedupKey(out[i])
                                => matches[c].confidence <= out[i].confidence
            /\ \A i, j \in DOMAIN out : i < j => out[i].confidence >= out[j].confidence

\* two candidates of one key and of different confidence: one was dropped
C9_DuplicateDropped ==
    /\ generateReturned
    /\ ~inCatch
    /\ Len(result.matches) < Len(matches)
    /\ \E c, d \in DOMAIN matches :
            /\ dedupKey(matches[c]) = dedupKey(matches[d])
            /\ matches[c].confidence < matches[d].confidence

\* C10: the deduplication and the sort of generateWithRAG, applied to the
\* matches generateWithRAG returned, give the same matches in the same order.
C10_DedupSortIdempotent ==
    generateReturned => finalMatchesOf(result.matches) = result.matches

\* the returned matches hold two entries of equal confidence
C10_TieReturned ==
    /\ generateReturned
    /\ \E i, j \in DOMAIN result.matches :
            i < j /\ result.matches[i].confidence = result.matches[j].confidence

(***************************************************************************)
(* Properties of the scorer (specification SpecScore)                      *)
(***************************************************************************)
\* calculateMatchScore has returned finalScore
scored == spc = "scored"

\* the words of a text: its maximal runs of word characters, in lower case
wordsOf(text) == Range(splitNonWord(toLowerCase(text)))

\* no color of the query is a word of the product text
noColorIsAWord ==
    \A k \in DOMAIN analysis.colors : analysis.colors[k] \notin wordsOf(textGiven)

\* C4: when at least one color is extracted from the query and none of the
\* query's colors appears as a whole word in the product text,
\* calculateMatchScore returns exactly 0, whatever the keyword, brand and
\* price overlap.
C4_MissingColorScoresZero ==
    (scored /\ analysis.colors # <<>> /\ noColorIsAWord) => finalScore = 0

\* a color of the query is inside a word of the text but is no word of it,
\* the keyword, brand and price requirements being met
C4_ColorInsideAWord ==
    /\ scored
    /\ analysis.colors # <<>>
    /\ noColorIsAWord
    /\ \E k \in DOMAIN analysis.colors :
            includes(toLowerCase(textGiven), analysis.colors[k])
    /\ analysis.keywords # <<>>
    /\ keywordsPass(textGiven, analysis)
    /\ brandsPass(textGiven, analysis)
    /\ pricesPass(textGiven, analysis)
    /\ finalScore = 0

\* a keyword appears in the text: itself, its naive plural or its naive singular
appears(keyword) ==
    LET lower == toLowerCase(textGiven)
    IN  \/ includes(lower, keyword)
        \/ includes(lower, Append(keyword, "s"))
        \/ includes(lower, SubSeq(keyword, 1, Len(keyword) - 1))

\* the number of the query's keywords that appear in the text
appearing == Cardinality({k \in DOMAIN analysis.keywords : appears(analysis.keywords[k])})

\* fewer than max(1, ceil(n/2)) of the n keywords appear
tooFewAppear == appearing < 1 \/ 2 * appearing < Len(analysis.keywords)

\* C5: when the query has n >= 1 residual keywords and fewer than
\* max(1, ceil(n/2)) of them appear in the product text (as the word or its
\* naive plural or singular), calculateMatchScore returns 0; a text with
\* none of the keywords never scores above 0.3.
C5_TooFewKeywordsScoresZero ==
    (scored /\ analysis.keywords # <<>>) =>
        /\ tooFewAppear => finalScore = 0
        /\ appearing = 0 => 10 * finalScore <= 3 * ScoreOne

\* one keyword of three appears, the color, brand and price requirements
\* being met
C5_OneOfThreeAppears ==
    /\ scored
    /\ Len(analysis.keywords) = 3
    /\ appearing = 1
    /\ colorsPass(textGiven, analysis)
    /\ brandsPass(textGiven, analysis)
    /\ pricesPass(textGiven, analysis)
    /\ finalScore = 0

\* the query carries price constraints and the keyword, color and brand
\* requirements pass
priceDecides ==
    /\ scored
    /\ analysis.priceConstraints # <<>>
    /\ keywordsPass(textGiven, analysis)
    /\ colorsPass(textGiven, analysis)
    /\ brandsPass(textGiven, analysis)

\* a price is found in the text and no found price satisfies every constraint
noPriceFits ==
    LET prices == extractPricesFromText(textGiven)
    IN  /\ prices # <<>>
        /\ \A i \in DOMAIN prices :
                \E k \in DOMAIN analysis.priceConstraints :
                    ~checkPriceConstraint(prices[i], analysis.priceConstraints[k])

\* C6: when the keyword, color and brand requirements pass and the query
\* carries price constraints, the score is 0 if and only if at least one
\* price is found in the product text and no found price satisfies every
\* constraint; with no price found the score is not 0.
C6_PriceRequirement ==
    priceDecides =>
        /\ finalScore = 0 <=> noPriceFits
        /\ extractPricesFromText(textGiven) = <<>> => finalScore > 0

\* a price is found in the text, no found price satisfies every constraint
\* and the score is 0, a keyword of the query being in the text
C6_FoundPriceDoesNotFit ==
    /\ priceDecides
    /\ analysis.keywords # <<>>
    /\ noPriceFits
    /\ finalScore = 0

\* the price constraints meet a text without a price and a keyword of the query
C6_NoPriceFound ==
    /\ priceDecides
    /\ analysis.keywords # <<>>
    /\ extractPricesFromText(textGiven) = <<>>
    /\ finalScore > 0

\* the constraints of the query, in the order extractPriceConstraints finds
\* them: first those of the under/below/less than/max/maximum pattern, then
\* those of the above/over/more than/min/minimum pattern
upperBounds == Len(constraintsOfPattern(toLowerCase(promptGiven), 1))

lowerBounds == Len(constraintsOfPattern(toLowerCase(promptGiven), 2))

\* C7 (as stated): each price number introduced by above, over, more than
\* or min yields a constraint of type min, and each price number introduced
\* by under, below, less than or max yields a constraint of type max,
\* whatever other words the query holds and also when it holds both a
\* lower and an upper bound.
C7_TypeFollowsTheWord ==
    scored =>
        /\ \A k \in 1..upperBounds : analysis.priceConstraints[k].type = "max"
        /\ \A k \in (upperBounds + 1)..(upperBounds + lowerBounds) :
                analysis.priceConstraints[k].type = "min"

\* C8: calculateMatchScore returns a number in [0, 1] for every product
\* text, query and allowlist of high-performing keywords, although the
\* weights can sum to more than 1 and the boost is added.
C8_ScoreInUnitInterval == scored => (0 <= finalScore /\ finalScore <= ScoreOne)

\* the weighted sum and the boost exceed 1, the boost being positive
C8_SumAboveOne ==
    /\ scored
    /\ checkCoreRequirements(textGiven, analysis)
    /\ calculateHighPerformingBoost(analysis.keywords, highPerformingKeywords) > 0
    /\ baseScoreOf(textGiven, analysis)
            + calculateHighPerformingBoost(analysis.keywords, highPerformingKeywords)
        > ScoreOne
    /\ finalScore = ScoreOne


(***************************************************************************)
(* Properties of re-indexing (specification SpecReindex)                   *)
(***************************************************************************)
\* the ProductIds of some matches, each with its confidence
idsWithConfidence(ms) == {<<ms[i].productId, ms[i].confidence>> : i \in DOMAIN ms}

atMostOnce(ms, productId) == Cardinality({i \in DOMAIN ms : ms[i].productId = productId}) <= 1

\* C11: after a product was indexed a second time, generateWithRAG returns
\* the same ProductIds with the same confidences as after it was indexed
\* once, and the product is at most once among the matches
C11_ReindexingKeepsMatches ==
    rpc = "queriedTwice" =>
        /\ idsWithConfidence(matchesTwice) = idsWithConfidence(matchesOnce)
        /\ atMostOnce(matchesTwice, rproduct[1].productId)

\* The divergence needs a full retrieval window: while the store holds at
\* most maxRetrievedChunks chunks, the second pass changes no match
C11_SmallStoreKeepsMatches ==
    (rpc = "queriedTwice" /\ Len(productChunks) <= maxRetrievedChunks) =>
        /\ idsWithConfidence(matchesTwice) = idsWithConfidence(matchesOnce)
        /\ atMostOnce(matchesTwice, rproduct[1].productId)

(***************************************************************************)
(* Properties of the stores (specification SpecStore)                      *)
(***************************************************************************)
\* C12: an indexing pass never resolves successfully when a write
\* transaction of that pass failed, that is, while records of the pass are
\* not persisted.
C12_FailedWriteRejects ==
    ~(tresult = "resolved" /\ failed.how = "abort" /\ failed.pass = passes)

\* The part of C12 about the store that cannot be opened: a store call made
\* while the database is not open ends the pass as rejected.
C12_UnopenedStoreRejects ==
    [][(tpc = "storing" /\ ~CanOpenTransaction /\ tpc' = "idle")
          => tresult' = "rejected"]_vars

C12_UnopenedStoreRejected == tresult = "rejected" /\ ~CanOpenTransaction

\* the records the failed store call had to write, the failed one left out
othersOfFailed == DOMAIN failed.records \ {failed.at}

storeNamed(store) == IF store = "productChunks" THEN productChunks ELSE productMeta

\* C13: when the write of one record fails inside storeChunks or
\* storeMetadata, the other records of the same batch are persisted (seen
\* once the store is quiet and nothing was cleared).
C13_FailedAddKeepsOthers ==
    (failed.how # "none" /\ txQueue = <<>> /\ tpc = "idle" /\ clears = 0) =>
        \A k \in othersOfFailed :
            \E j \in DOMAIN storeNamed(storeOf(failed.kind)) :
                storeNamed(storeOf(failed.kind))[j] = failed.records[k]

\* whether the store holds a metadata record of the product
holdsMetadata(productId) == \E j \in DOMAIN productMeta : productMeta[j].productId = productId

\* the matches a hydration step added
addedMatches == SubSeq(matches', Len(matches) + 1, Len(matches'))

\* C14: whatever was written or cleared between retrieval and lookup, a
\* lookup that succeeds and finds no metadata of the product adds no match
\* and the call goes on to its result; a match that is added carries a
\* metadata record the store holds for its ProductId.
C14_HydrationMissIsSkipped ==
    [][(qpc = "gHydrate" /\ qpc' # "idle" /\ ~inCatch') =>
          /\ ~holdsMetadata(Head(pending).productId) =>
                /\ matches' = matches
                /\ pending' = <<>> => /\ qpc' = "done"
                                      /\ result'.status = "resolved"
                                      /\ result' # caughtResult
          /\ \A k \in DOMAIN addedMatches :
                /\ addedMatches[k].productId = Head(pending).productId
                /\ \E j \in DOMAIN productMeta :
                      /\ productMeta[j].productId = addedMatches[k].productId
                      /\ productMeta[j].title = addedMatches[k].title
          /\ \A k \in DOMAIN result'.matches :
                \E i \in DOMAIN matches' : matches'[i] = result'.matches[k]]_vars

\* a call that returned matches although a retrieved product above the
\* threshold had no metadata at lookup: one product returned, one omitted
C14_MissOmitted ==
    /\ qpc = "done"
    /\ ~inCatch
    /\ result.matches # <<>>
    /\ \E k \in DOMAIN productScoresOf(relevantChunks) :
          /\ productScoresOf(relevantChunks)[k].maxSimilarity > similarityThreshold
          /\ \A i \in DOMAIN matches :
                matches[i].productId # productScoresOf(relevantChunks)[k].productId

\* C15: within one indexing pass, every chunk write of a product is issued
\* before the metadata write of that product.
C15_ChunksBeforeMetadata ==
    \A i \in DOMAIN writeLog : \A j \in DOMAIN writeLog :
        (/\ writeLog[i].store = "productMeta"
         /\ writeLog[j].store = "productChunks"
         /\ writeLog[j].pass = writeLog[i].pass
         /\ writeLog[j].productId = writeLog[i].productId) => j < i

\* a pass over two products that issued the chunk and the metadata writes
\* of both
C15_BothWritten ==
    \E i \in DOMAIN writeLog : \E j \in DOMAIN writeLog :
        /\ writeLog[i].store = "productMeta"
        /\ writeLog[j].store = "productMeta"
        /\ writeLog[j].pass = writeLog[i].pass
        /\ writeLog[j].productId # writeLog[i].productId
        /\ \E k \in DOMAIN writeLog :
              /\ writeLog[k].store = "productChunks"
              /\ writeLog[k].pass = writeLog[j].pass
              /\ writeLog[k].productId = writeLog[j].productId

\* C16: clearRAGDatabase empties the chunk collection and the metadata
\* collection in one step: in no state, hence for no reader, is one of them
\* emptied by a clear while the other holds a record from before that clear.
C16_ClearIsAtomic ==
    /\ \A j \in DOMAIN metaEpochs : metaEpochs[j] >= chunksCleared
    /\ \A j \in DOMAIN chunkEpochs : chunkEpochs[j] >= metaCleared

\* a clear that emptied both collections between the retrieval and the
\* metadata lookups of a query that had found chunks and metadata
C16_ClearedUnderQuery ==
    /\ qpc = "gHydrate"
    /\ chunks # <<>>
    /\ metaAtRetrieval # <<>>
    /\ chunksCleared = 1
    /\ metaCleared = 1
    /\ productChunks = <<>>
    /\ productMeta = <<>>

(***************************************************************************)
(* Properties of the content script (specification SpecCapture)            *)
(***************************************************************************)
\* the capture/index passes in progress: captureAndIndexProductsForRAG past
\* its guard, capturing the page or indexing what it captured
passesInProgress == {i \in Calls : dpc[i] \in {"capturing", "indexing"}}

\* C17: at no time are two capture/index passes in progress at once.
C17_OnePassAtATime == Cardinality(passesInProgress) <= 1

\* The guard as far as it goes: while isCapturing is set, a call of
\* detectProducts starts no pass.
C17_GuardRefuses ==
    [][isCapturing => passesInProgress' \subseteq passesInProgress]_vars

C17_CallRefused == \E i \in Calls : dpc[i] = "skipped" /\ passesInProgress # {}

(***************************************************************************)
(* Properties of chunking (specification SpecChunk)                        *)
(***************************************************************************)
\* the description chunks handed to storeChunks
descriptions == SelectSeq(cresult.chunks, LAMBDA chunk : chunk.type = "description")

\* a batch of one product whose text is longer than the chunk size was
\* processed
longTextProcessed ==
    /\ cpc = "processed"
    /\ Len(cbatch) = 1
    /\ Len(cbatch[1].text) > chunkSize

\* whether the end of a is the beginning of b, over the configured overlap
overlapping(a, b) ==
    /\ Len(a) >= overlapOf(chunkSize)
    /\ Len(b) >= overlapOf(chunkSize)
    /\ SubSeq(a, Len(a) - overlapOf(chunkSize) + 1, Len(a)) = SubSeq(b, 1, overlapOf(chunkSize))

\* C18: a product whose full text is longer than the chunk size gets more
\* than one description chunk, each of at most chunkSize characters, and
\* consecutive description chunks overlap by the configured overlap.
C18_LongTextChunks ==
    longTextProcessed =>
        /\ Len(descriptions) > 1
        /\ \A k \in DOMAIN descriptions : Len(descriptions[k].content) <= chunkSize
        /\ \A k \in 1..(Len(descriptions) - 1) :
              overlapping(descriptions[k].content, descriptions[k + 1].content)

\* The part of C18 that holds for the texts the capture delivers (trimmed):
\* more than one description chunk, each of at most chunkSize characters.
C18_LongTextCountAndLength ==
    longTextProcessed =>
        /\ Len(descriptions) > 1
        /\ \A k \in DOMAIN descriptions : Len(descriptions[k].content) <= chunkSize

C18_LongTextSplit == longTextProcessed /\ Len(descriptions) = 3

\* a product without usable text: title and brand empty, the text empty or
\* missing
bare(product) ==
    /\ product.title = <<>>
    /\ product.brand = <<>>
    /\ ~product.hasText \/ product.text = <<>>

\* the batch completed, with no chunk of its bare products and with chunks
\* and metadata of its other products
bareLeftOut ==
    /\ cresult.status = "resolved"
    /\ \A k \in DOMAIN cbatch :
          IF bare(cbatch[k])
          THEN \A c \in DOMAIN cresult.chunks : cresult.chunks[c].productId # cbatch[k].id
          ELSE /\ \E c \in DOMAIN cresult.chunks : cresult.chunks[c].productId = cbatch[k].id
               /\ \E m \in DOMAIN cresult.metadata : cresult.metadata[m] = cbatch[k].id

\* C19: indexing a product without usable text (title, brand and text empty
\* or missing) is no error: the batch completes, with zero chunks for that
\* product and with the other products indexed.
C19_BareProductIsNoError ==
    (cpc = "processed" /\ \E k \in DOMAIN cbatch : bare(cbatch[k])) => bareLeftOut

\* a bare product whose text is the empty string and that has no price
emptyBare(product) == bare(product) /\ product.hasText /\ product.price = <<>>

\* The part of C19 that holds: a product whose title, brand, text and price
\* are empty strings.
C19_EmptyTextIsNoError ==
    (/\ cpc = "processed"
     /\ \E k \in DOMAIN cbatch : bare(cbatch[k])
     /\ \A k \in DOMAIN cbatch : bare(cbatch[k]) => emptyBare(cbatch[k])) => bareLeftOut

C19_EmptyTextProcessed ==
    /\ cpc = "processed"
    /\ \E k \in DOMAIN cbatch : emptyBare(cbatch[k])
    /\ cresult.chunks # <<>>

(***************************************************************************)
(* Properties of the enhancer (specification SpecGroqFair)                 *)
(***************************************************************************)
\* every promise is pending or resolved with a score in [0, 1]
settledInRange ==
    \A r \in DOMAIN promises :
        /\ promises[r].status \in {"pending", "resolved"}
        /\ promises[r].status = "resolved" => promises[r].score \in 0..100

\* every pending request is queued with the timer set, or in a batch in
\* flight
nonePendingForgotten ==
    \A r \in DOMAIN promises :
        promises[r].status = "pending" =>
            \/ batchTimer /\ \E i \in DOMAIN batchQueue : batchQueue[i] = r
            \/ \E batch \in inFlight : \E i \in DOMAIN batch : batch[i] = r

\* no promise is pending; a resolved promise stays resolved, so that every
\* promise resolves if time and again none is pending
nonePending == \A r \in DOMAIN promises : promises[r].status = "resolved"

\* C20: every promise of evaluateProduct is never rejected, resolves with a
\* score in [0, 1], and resolves eventually: a queued request is never left
\* without a timer or a batch, and a failed LLM call resolves its requests
\* with the low default.
C20_EveryPromiseResolves ==
    /\ [](settledInRange /\ nonePendingForgotten)
    /\ []<>nonePending

\* a full batch went out at once and was answered with three numbers, one
\* of them 0 and one above 1
C20_BatchesResolved ==
    /\ Len(promises) = MaxRequests
    /\ \A r \in DOMAIN promises : promises[r].status = "resolved"
    /\ promises[1].score = 90
    /\ promises[2].score = lowDefault
    /\ promises[3].score = 100
    /\ promises[batchSize].score = lowDefault

(***************************************************************************)
(* Properties of the accuracy tests (specification SpecAccuracy)           *)
(***************************************************************************)
promptWords == splitWhitespace(promptGiven)

\* the prompt is a brand and a model token, both verbatim in the product
\* text, and holds no color, price or attribute constraint
brandAndModelToken ==
    /\ Len(promptWords) = 2
    /\ toLowerCase(promptWords[1]) \in Range(commonBrands)
    /\ includes(textGiven, promptWords[1])
    /\ includes(textGiven, promptWords[2])
    /\ analysis.colors = <<>>
    /\ analysis.priceConstraints = <<>>
    /\ analysis.attributes = <<>>

\* the model token is a keyword of the query (more than two characters, not
\* a number) and a word of the product text, as is the brand
tokenIsKeywordAndWord ==
    /\ analysis.keywords = <<toLowerCase(promptWords[2])>>
    /\ testWord(textGiven, promptWords[1])
    /\ testWord(textGiven, promptWords[2])

semanticMatchOnly ==
    /\ [productText |-> textGiven, userPrompt |-> promptGiven] \in SemanticMatchTests
    /\ analysis.keywords # <<>>
    /\ \A k \in DOMAIN analysis.keywords :
           ~includes(toLowerCase(textGiven), analysis.keywords[k])

\* C22: a product that is semantically related to the query but holds none of
\* the query's residual keywords literally scores at least 0.6 and at most
\* 0.8.
C22_SemanticMatchScoresMiddle ==
    spc = "scored" /\ semanticMatchOnly => passed(finalScore, SemanticMatchRange)

\* what the code does instead: without one keyword of the query in its text
\* the product fails checkCoreRequirements and scores 0
C22_NoKeywordScoresZero ==
    spc = "scored" /\ semanticMatchOnly => finalScore = 0

\* the "Semantic Match Test" itself was scored
C22_SemanticMatchTestScored ==
    /\ spc = "scored"
    /\ semanticMatchOnly
    /\ Len(analysis.keywords) = 2
    /\ analysis.attributes # <<>>
    /\ finalScore = 0

(***************************************************************************)
(* Further properties of the content script (specification SpecCapture)    *)
(***************************************************************************)
\* the stages of a call during which a capture pass of its own is running
passStages == {"capturing", "refused", "indexing", "fallbackCapturing"}

noPassRunning == \A i \in Calls : dpc[i] \notin passStages

\* C23: every capture pass releases the in-progress flag when it ends: once
\* captureAndIndexProductsForRAG and captureAndIndexProducts have returned or
\* thrown, isCapturing is false, so that a later detectProducts can start a
\* pass again.
C23_PassReleasesFlag == noPassRunning => ~isCapturing

\* the fallback's capture has ended and every call returned, the flag is
\* still set and no pass ever completed: the next detectProducts is refused
C23_FlagLeftSet ==
    /\ \A i \in Calls : dpc[i] = "free"
    /\ isCapturing
    /\ ~captureCompleted
    /\ isEnabled /\ hasPrompt

\* a step in which the index pass of call i ends without an error
passCompletes(i) == dpc[i] = "indexing" /\ dpc'[i] = "generate"

\* C24: captureCompleted becomes true only after a capture-and-index pass
\* has run to completion: no detectProducts sets it, or goes on to
\* generateWithRAG, while the only index pass is still in progress or when
\* its own pass was skipped by the reentrancy guard.
C24_CompletedOnlyAfterPass ==
    [][/\ (~captureCompleted /\ captureCompleted') => \E i \in Calls : passCompletes(i)
       /\ \A i \in Calls :
              (dpc[i] # "generate" /\ dpc'[i] = "generate") =>
                  \/ passCompletes(i)
                  \/ \A j \in Calls : dpc[j] \notin passStages]_vars

\* a call skipped by the guard has set captureCompleted and runs
\* generateWithRAG while the only pass is still indexing
C24_GenerateDuringPass ==
    /\ captureCompleted
    /\ \E i \in Calls : dpc[i] = "generate"
    /\ \E j \in Calls : dpc[j] = "indexing"
    /\ isCapturing

\* no detectProducts or detectNewProducts call is in flight
noCallInFlight == \A i \in Calls : dpc[i] = "free"

\* C25: whenever the highlighter is disabled and all pending asynchronous
\* work has finished, no page element carries a highlight: a run in flight
\* when the user toggled off adds no highlight after clearHighlights.
C25_DisabledMeansNoHighlight ==
    ~isEnabled /\ noCallInFlight => ~highlighted

\* what does hold: the handler that disables the highlighter leaves no
\* highlight behind at the moment it returns
C25_ToggleOffClears ==
    [][isEnabled /\ ~isEnabled' => ~highlighted']_vars

\* the highlighter was switched off with highlights on the page, and they
\* are gone
C25_ClearedByToggle ==
    /\ ~isEnabled
    /\ ~highlighted
    /\ captureCompleted
    /\ hideTimers > 0

(***************************************************************************)
(* Properties of the toolbar (specification SpecToolbar)                   *)
(***************************************************************************)
timersDone == hideTimers = 0 /\ edgeTimers = 0

\* C28: after any sequence of toggle-button clicks and edge-tab clicks, once
\* all pending timers have fired, the toolbar is hidden and the edge tab
\* visible iff isEnabled is false; when isEnabled is true the toolbar is
\* shown and the edge tab not visible.
C28_ToolbarFollowsEnabled ==
    timersDone => /\ toolbarHidden <=> ~isEnabled
                  /\ edgeVisible <=> ~isEnabled

\* what does hold: a disabled highlighter ends with its toolbar hidden and
\* its edge tab visible
C28_DisabledEndsHidden ==
    timersDone /\ ~isEnabled => toolbarHidden /\ edgeVisible

\* the toolbar was hidden by a click and its timers have fired
C28_HiddenAfterToggle ==
    /\ timersDone
    /\ ~isEnabled
    /\ toolbarHidden /\ edgeVisible
    /\ captureCompleted

\* the timers of a hideToolbar fired after the toolbar was shown again
C28_EnabledButHidden ==
    /\ timersDone
    /\ isEnabled
    /\ toolbarHidden /\ edgeVisible

(***************************************************************************)
(* Further properties of the enhancer (specification SpecGroq)             *)
(***************************************************************************)
\* the keys under which the answer to a batch is stored
storedBy(batch) == {promises[batch[i]].key : i \in DOMAIN batch}

\* C26: every entry of the score cache stored under the key of
\* (productText, userQuery) holds a score obtained by evaluating that
\* productText against that same userQuery: whenever an answer is stored,
\* the query of the prompt it answers is the query of every key it is
\* stored under.
C26_CachedForOwnQuery ==
    [][cache' # cache =>
          \A batch \in inFlight \ inFlight' :
              \A key \in storedBy(batch) : queryOf(key) = promptQuery(batch)]_vars

\* a batch in flight holds requests of both queries, the first of query 1
C26_MixedBatch ==
    \E batch \in inFlight :
        /\ promptQuery(batch) = 1
        /\ \E i \in DOMAIN batch : queryOf(promises[batch[i]].key) = 2

(***************************************************************************)
(* Further properties of the RAG system (specification Spec)               *)
(***************************************************************************)
\* C27: the matches returned by the retrieval fallback (createFallbackMatches,
\* reached from extractProductMatches) contain each product at most once:
\* no two of them have the same productId.
C27_FallbackMatchesDistinct ==
    fallbackReturned /\ result.status = "resolved" =>
        \A i, j \in DOMAIN result.matches :
            result.matches[i].productId = result.matches[j].productId => i = j

\* the fallback returned matches of different products only
C27_DistinctReturned ==
    /\ fallbackReturned /\ result.status = "resolved"
    /\ Len(result.matches) = 2
    /\ result.matches[1].productId # result.matches[2].productId

\* the fallback returned one product twice, for two of its chunks
C27_SameProductTwice ==
    /\ fallbackReturned /\ result.status = "resolved"
    /\ \E i, j \in DOMAIN result.matches :
           i < j /\ result.matches[i].productId = result.matches[j].productId


\* C29: when the popup opens on a threshold applySettings stored, loadSettings
\* sets the slider and its label to the percentage that was applied
C29_SliderRoundTrip ==
    [][(applied /\ ~popupOpen /\ popupOpen')
        => (whole(sliderValue') = storedThreshold * 100
            /\ thresholdLabel' = sliderValue')]_vars

\* a popup that opened on an applied threshold and shows another percentage
C29_AnotherPercentage ==
    /\ applied /\ popupOpen
    /\ storedThreshold = 75
    /\ sliderValue = 1
    /\ thresholdLabel = 1

\* C30: a prompt of at most two pieces never gets a threshold below the
\* base threshold, a sentence with requirements never one above it
C30_AdjustedInDirection ==
    adjustedThreshold # NotComputed =>
        /\ ~isSentence(thresholdPrompt) => adjustedThreshold >= threshold
        /\ (isSentence(thresholdPrompt) /\ hasSpecificRequirements(thresholdPrompt))
              => adjustedThreshold <= threshold

\* a simple prompt whose threshold went down
C30_SimpleLowered ==
    /\ adjustedThreshold # NotComputed
    /\ ~isSentence(thresholdPrompt)
    /\ adjustedThreshold < threshold

\* a sentence with requirements whose threshold went up
C30_SentenceRaised ==
    /\ adjustedThreshold # NotComputed
    /\ isSentence(thresholdPrompt) /\ hasSpecificRequirements(thresholdPrompt)
    /\ adjustedThreshold > threshold

=============================================================================
